---- MODULE Spec2Model ----
(***************************************************************************)
(* A model of gosh (cryptexctl/gosh): the Job Manager                      *)
(* (internal/jobs/jobs.go), the Variable Store                             *)
(* (internal/variables/variables.go), and the path of one input line       *)
(* through the lexer, the parser and the executor                          *)
(* (internal/parser/parser.go, the executor, internal/shell).              *)
(***************************************************************************)
EXTENDS Integers, Sequences, FiniteSets, TLC

(***************************************************************************)
(* Bounds of the model.                                                    *)
(***************************************************************************)
\* Add is called at most MaxJobs times (ids 1..MaxJobs are handed out).
MaxJobs == 2
\* time.Now() takes the values 0..MaxTime.
MaxTime == 2

(***************************************************************************)
(* jobs.go: JobState (the iota block of lines 14-19).                      *)
(***************************************************************************)
JobRunning == 0
JobStopped == 1
JobDone == 2
JobKilled == 3

VARIABLES
    jobs,     \* the Job records ever allocated, by id: *Job values stay
              \* reachable through pointers after Clean drops them from the map
    table,    \* the keys of Manager.jobs
    nextID,   \* Manager.nextID
    issued,   \* history: for each Add, in order, the id it handed out and
              \* the number of jobs the table held when it ran
    mu,       \* Manager.mu: 0 = free, j = held exclusively by monitor(job j)
    proc,     \* the OS process of each job: [st, how]
    mon,      \* the monitor goroutine of each job: [pc, err]
    clock,    \* what time.Now() returns
    call,     \* the calling thread's call, in flight or returned:
              \* [op, pc, id, seen, res, todo]
    store,    \* variables.Manager.vars: the Variable of each name it holds
    env,      \* the process environment: the value of each name it holds
    storeErr, \* the error the Store's last operation returned, or nil
    loop,     \* where the shell's main goroutine is: read, parse, execute
    line,     \* the line executeLine was called with
    tokens,   \* Parser.tokens
    pos,      \* Parser.pos
    commands, \* the commands Parse has collected, then those left to execute
    turn,     \* history: the parity of the iterations of Parse's loop
    exitCode, \* Shell.exitCode
    bgTasks,  \* the goroutines executeBackground has started
    run,      \* one evaluation by the Executor, to be made or made:
              \* [pc, input, err, cmd, world, result]
    osStdin,  \* os.Stdin, the process-wide standard input
    stages,   \* the stages of the pipeline being evaluated, left to right
    inv,      \* the calls of executePipeline, the innermost pipeline first:
              \* [pc, chan, received, code, left, right, old]
    pipes,    \* the pipe of each call: [buf, w, r]
    procs     \* the external process of each stage:
              \* [st, stdin, stdout, got, wrote]

jobVars == <<jobs, table, nextID, issued, mu, proc, mon, clock, call>>
storeVars == <<store, env, storeErr>>
shellVars == <<loop, line, tokens, pos, commands, turn, exitCode, bgTasks>>
execVars == <<run>>
pipeVars == <<osStdin, stages, inv, pipes, procs>>
vars == <<jobVars, storeVars, shellVars, execVars, pipeVars>>

\* The ids a caller may pass: those Add can hand out (unknown until it does).
IdSet == 1..MaxJobs

\* The value of a nil *time.Time, and of a set one.
NilTime == <<>>
TimeAt(t) == <<t>>

InitJobs ==
    /\ jobs = <<>>
    /\ table = {}
    /\ nextID = 1
    /\ issued = <<>>
    /\ mu = 0
    /\ proc = <<>>
    /\ mon = <<>>
    /\ clock = 0
    /\ call = [op |-> "none", pc |-> "idle", id |-> 0, seen |-> JobRunning,
               res |-> "none", todo |-> {}]

(***************************************************************************)
(* The operating system's side of a job.                                   *)
(*   st:  running, stopped, zombie (exited, not yet waited for), reaped    *)
(*   how: none, exit0 (exit status 0), exit1 (non-zero exit status),       *)
(*        signal (terminated by a signal)                                  *)
(***************************************************************************)
\* The process ends: by itself with a status, or by a signal (a SIGTERM
\* sent by Kill, which the process may catch, or any other signal).  A
\* stopped process cannot run to its exit; a signal can end it.
ProcExit(j, how) ==
    /\ j \in DOMAIN proc
    /\ \/ proc[j].st = "running"
       \/ proc[j].st = "stopped" /\ how = "signal"
    /\ proc' = [proc EXCEPT ![j] = [st |-> "zombie", how |-> how]]
    /\ UNCHANGED <<jobs, table, nextID, issued, mu, mon, clock, call,
                   storeVars, shellVars, execVars, pipeVars>>

\* time passes
Tick ==
    /\ clock < MaxTime
    /\ clock' = clock + 1
    /\ UNCHANGED <<jobs, table, nextID, issued, mu, proc, mon, call,
                   storeVars, shellVars, execVars, pipeVars>>

\* os.Process.Signal: fails with os.ErrProcessDone once the process has been
\* waited for; a zombie still takes signals.
SignalErr(id) == proc[id].st = "reaped"

\* a Wait that also returns when the process is stopped
Exited_Stopped(id) == proc[id].st \in {"stopped", "zombie", "reaped"}

\* exec.Cmd.Wait returns once the process has ended.
Exited(id) == proc[id].st \in {"zombie", "reaped"}

\* exec.Cmd.Wait's result: nil for exit status 0, an *exec.ExitError for a
\* non-zero status or a signal, and another error ("Wait was already
\* called", ECHILD) when another Wait on the same Cmd took the status.
WaitResult(id) ==
    IF proc[id].st = "reaped" THEN "other"
    ELSE IF proc[id].how = "exit0" THEN "nil"
    ELSE "exit"

\* syscall.WaitStatus.ExitStatus(): the status, -1 for a signalled process.
ExitStatus(id) == IF proc[id].how = "exit1" THEN 1 ELSE -1

(***************************************************************************)
(* The calling thread.  The shell's read loop runs the builtins jobs, fg,  *)
(* bg and kill one after the other (builtins.go 278-367), so the calls of  *)
(* Kill, Stop, Continue, Foreground, Background and Print come from one    *)
(* thread, one at a time; the monitors and the processes run beside it.    *)
(***************************************************************************)
Idle == call.pc \in {"idle", "ret"}

NewCall(op, pc, id, res) ==
    [op |-> op, pc |-> pc, id |-> id, seen |-> JobRunning, res |-> res, todo |-> {}]

(***************************************************************************)
(* Manager.Add (jobs.go 61-81).                                            *)
(***************************************************************************)
AddID_Reuse == Cardinality(table) + 1
AddID == nextID

Add ==
    /\ mu = 0
    /\ nextID <= MaxJobs
    /\ LET id == AddID
           job == [ID |-> id, State |-> JobRunning, Finished |-> NilTime,
                   ExitCode |-> 0]
       IN /\ jobs' = (id :> job) @@ jobs
          /\ table' = table \cup {id}
          /\ issued' = Append(issued, [id |-> id, live |-> Cardinality(table)])
          /\ proc' = (id :> [st |-> "running", how |-> "none"]) @@ proc
          /\ mon' = (id :> [pc |-> "wait", err |-> "none"]) @@ mon
    /\ nextID' = nextID + 1
    /\ UNCHANGED <<mu, clock, call,
                   storeVars, shellVars, execVars, pipeVars>>

(***************************************************************************)
(* Manager.Kill (jobs.go 139-168).  Signal(SIGTERM) and the fallback       *)
(* Process.Kill fail together, when the process has been waited for.       *)
(* SIGTERM changes nothing at once: the process ends later (ProcExit).     *)
(***************************************************************************)
KillErr(id) ==
    \/ id \notin table
    \/ jobs[id].State # JobRunning /\ jobs[id].State # JobStopped
    \/ SignalErr(id)

KillJobs(id) ==
    [jobs EXCEPT ![id].State = JobKilled, ![id].Finished = TimeAt(clock)]

Kill(id) ==
    /\ Idle
    /\ mu = 0
    /\ jobs' = IF KillErr(id) THEN jobs ELSE KillJobs(id)
    /\ call' = NewCall("Kill", "ret", id, IF KillErr(id) THEN "err" ELSE "nil")
    /\ UNCHANGED <<table, nextID, issued, mu, proc, mon, clock,
                   storeVars, shellVars, execVars, pipeVars>>

(***************************************************************************)
(* Manager.Stop (jobs.go 170-192).                                         *)
(***************************************************************************)
StopErr(id) ==
    \/ id \notin table
    \/ jobs[id].State # JobRunning
    \/ SignalErr(id)

StopJobs_Any(id) ==
    IF id \in table THEN [jobs EXCEPT ![id].State = JobStopped] ELSE jobs
StopJobs(id) == IF StopErr(id) THEN jobs ELSE [jobs EXCEPT ![id].State = JobStopped]

\* SIGSTOP suspends a running process; a zombie is beyond it.
StopProc(id) ==
    IF ~StopErr(id) /\ proc[id].st = "running"
    THEN [proc EXCEPT ![id].st = "stopped"] ELSE proc

Stop(id) ==
    /\ Idle
    /\ mu = 0
    /\ jobs' = StopJobs(id)
    /\ proc' = StopProc(id)
    /\ call' = NewCall("Stop", "ret", id, IF StopErr(id) THEN "err" ELSE "nil")
    /\ UNCHANGED <<table, nextID, issued, mu, mon, clock,
                   storeVars, shellVars, execVars, pipeVars>>

(***************************************************************************)
(* Manager.Continue (jobs.go 194-216).                                     *)
(***************************************************************************)
ContinueErr(id) ==
    \/ id \notin table
    \/ jobs[id].State # JobStopped
    \/ SignalErr(id)

ContinueJobs_All(id) ==
    IF ContinueErr(id) THEN jobs
    ELSE [j \in DOMAIN jobs |->
            IF jobs[j].State = JobStopped
            THEN [jobs[j] EXCEPT !.State = JobRunning] ELSE jobs[j]]
ContinueJobs(id) ==
    IF ContinueErr(id) THEN jobs ELSE [jobs EXCEPT ![id].State = JobRunning]

\* SIGCONT resumes a stopped process.
ContinueProc(id) ==
    IF ~ContinueErr(id) /\ proc[id].st = "stopped"
    THEN [proc EXCEPT ![id].st = "running"] ELSE proc

Continue(id) ==
    /\ Idle
    /\ mu = 0
    /\ jobs' = ContinueJobs(id)
    /\ proc' = ContinueProc(id)
    /\ call' = NewCall("Continue", "ret", id, IF ContinueErr(id) THEN "err" ELSE "nil")
    /\ UNCHANGED <<table, nextID, issued, mu, mon, clock,
                   storeVars, shellVars, execVars, pipeVars>>

(***************************************************************************)
(* Manager.Foreground (jobs.go 218-235), one action per step:              *)
(*   FgGet       job := m.Get(id), under the shared lock                   *)
(*   FgCheck     reads job.State, the lock released                        *)
(*   FgContinue  m.Continue(id), under the exclusive lock                  *)
(*   FgWait      job.Cmd.Wait()                                            *)
(* Add always stores a non-nil Cmd, so line 234 is not reached.            *)
(***************************************************************************)
FgGet(id) ==
    /\ Idle
    /\ mu = 0
    /\ call' = IF id \in table
               THEN NewCall("Foreground", "check", id, "none")
               ELSE NewCall("Foreground", "ret", id, "notfound")
    /\ UNCHANGED <<jobs, table, nextID, issued, mu, proc, mon, clock,
                   storeVars, shellVars, execVars, pipeVars>>

FgCheck ==
    /\ call.op = "Foreground"
    /\ call.pc = "check"
    /\ call' = [call EXCEPT !.seen = jobs[call.id].State,
                            !.pc = IF jobs[call.id].State = JobStopped
                                   THEN "continue" ELSE "wait"]
    /\ UNCHANGED <<jobs, table, nextID, issued, mu, proc, mon, clock,
                   storeVars, shellVars, execVars, pipeVars>>

FgContinue ==
    /\ call.op = "Foreground"
    /\ call.pc = "continue"
    /\ mu = 0
    /\ jobs' = ContinueJobs(call.id)
    /\ proc' = ContinueProc(call.id)
    /\ call' = IF ContinueErr(call.id)
               THEN [call EXCEPT !.pc = "ret", !.res = "conterr"]
               ELSE [call EXCEPT !.pc = "wait"]
    /\ UNCHANGED <<table, nextID, issued, mu, mon, clock,
                   storeVars, shellVars, execVars, pipeVars>>

FgWait ==
    /\ call.op = "Foreground"
    /\ call.pc = "wait"
    /\ Exited(call.id)
    /\ call' = [call EXCEPT !.pc = "ret", !.res = WaitResult(call.id)]
    /\ proc' = [proc EXCEPT ![call.id].st = "reaped"]
    /\ UNCHANGED <<jobs, table, nextID, issued, mu, mon, clock,
                   storeVars, shellVars, execVars, pipeVars>>

(***************************************************************************)
(* Manager.Background (jobs.go 237-248).                                   *)
(***************************************************************************)
BgGet(id) ==
    /\ Idle
    /\ mu = 0
    /\ call' = IF id \in table
               THEN NewCall("Background", "check", id, "none")
               ELSE NewCall("Background", "ret", id, "notfound")
    /\ UNCHANGED <<jobs, table, nextID, issued, mu, proc, mon, clock,
                   storeVars, shellVars, execVars, pipeVars>>

BgCheck ==
    /\ call.op = "Background"
    /\ call.pc = "check"
    /\ call' = IF jobs[call.id].State = JobStopped
               THEN [call EXCEPT !.seen = jobs[call.id].State, !.pc = "continue"]
               ELSE [call EXCEPT !.seen = jobs[call.id].State, !.pc = "ret",
                                 !.res = "nil"]
    /\ UNCHANGED <<jobs, table, nextID, issued, mu, proc, mon, clock,
                   storeVars, shellVars, execVars, pipeVars>>

BgContinue ==
    /\ call.op = "Background"
    /\ call.pc = "continue"
    /\ mu = 0
    /\ jobs' = ContinueJobs(call.id)
    /\ proc' = ContinueProc(call.id)
    /\ call' = [call EXCEPT !.pc = "ret",
                            !.res = IF ContinueErr(call.id) THEN "conterr" ELSE "nil"]
    /\ UNCHANGED <<table, nextID, issued, mu, mon, clock,
                   storeVars, shellVars, execVars, pipeVars>>

(***************************************************************************)
(* The fg builtin without arguments (builtins.go 283-303), one action per  *)
(* step:                                                                   *)
(*   FgList     jobs := s.jobs.List(), under the shared lock; todo holds   *)
(*              the jobs the loop has not visited                          *)
(*   FgRunning  s.jobs.Running()[0], under the shared lock: the index      *)
(*              expression panics on an empty slice                        *)
(*   FgCompare  jobs[i].State == running.State, the lock released; List    *)
(*              ranges over a map, so job i is any job not yet visited     *)
(*   FgCurrent  the m.Get(id) of the Foreground the builtin then calls     *)
(* The job it picks is never Stopped when Foreground reads its state: Stop *)
(* is called by the same task.                                             *)
(***************************************************************************)
FgList ==
    /\ Idle
    /\ mu = 0
    /\ call' = IF table = {}
               THEN NewCall("fg", "ret", 0, "nocurrent")
               ELSE [NewCall("fg", "running", 0, "none") EXCEPT !.todo = table]
    /\ UNCHANGED <<jobs, table, nextID, issued, mu, proc, mon, clock,
                   storeVars, shellVars, execVars, pipeVars>>

FgRunning ==
    /\ call.op = "fg"
    /\ call.pc = "running"
    /\ mu = 0
    /\ LET running == {id \in table : jobs[id].State = JobRunning}
       IN IF running = {}
          THEN call' = [call EXCEPT !.pc = "ret", !.res = "panic", !.todo = {}]
          ELSE \E first \in running : call' = [call EXCEPT !.pc = "compare", !.id = first]
    /\ UNCHANGED <<jobs, table, nextID, issued, mu, proc, mon, clock,
                   storeVars, shellVars, execVars, pipeVars>>

FgCompare(j) ==
    /\ call.op = "fg"
    /\ call.pc = "compare"
    /\ j \in call.todo
    /\ call' = IF jobs[j].State = jobs[call.id].State
               THEN [call EXCEPT !.pc = "get", !.id = j, !.todo = {}]
               ELSE IF call.todo = {j}
               THEN [call EXCEPT !.pc = "ret", !.res = "nocurrent", !.todo = {}]
               ELSE [call EXCEPT !.pc = "running", !.todo = call.todo \ {j}]
    /\ UNCHANGED <<jobs, table, nextID, issued, mu, proc, mon, clock,
                   storeVars, shellVars, execVars, pipeVars>>

FgCurrent ==
    /\ call.op = "fg"
    /\ call.pc = "get"
    /\ mu = 0
    /\ call' = IF call.id \in table
               THEN NewCall("Foreground", "check", call.id, "none")
               ELSE NewCall("Foreground", "ret", call.id, "notfound")
    /\ UNCHANGED <<jobs, table, nextID, issued, mu, proc, mon, clock,
                   storeVars, shellVars, execVars, pipeVars>>

NextFg ==
    \/ FgList
    \/ FgRunning
    \/ \E j \in IdSet : FgCompare(j)
    \/ FgCurrent
    \/ FgCheck
    \/ FgWait

(***************************************************************************)
(* Manager.WaitJob (jobs.go 271-282): job := m.Get(id) under the shared    *)
(* lock, then job.Cmd.Wait().                                              *)
(***************************************************************************)
WjGet(id) ==
    /\ Idle
    /\ mu = 0
    /\ call' = IF id \in table
               THEN NewCall("WaitJob", "wait", id, "none")
               ELSE NewCall("WaitJob", "ret", id, "notfound")
    /\ UNCHANGED <<jobs, table, nextID, issued, mu, proc, mon, clock,
                   storeVars, shellVars, execVars, pipeVars>>

WjWait ==
    /\ call.op = "WaitJob"
    /\ call.pc = "wait"
    /\ Exited(call.id)
    /\ call' = [call EXCEPT !.pc = "ret", !.res = WaitResult(call.id)]
    /\ proc' = [proc EXCEPT ![call.id].st = "reaped"]
    /\ UNCHANGED <<jobs, table, nextID, issued, mu, mon, clock,
                   storeVars, shellVars, execVars, pipeVars>>

(***************************************************************************)
(* Manager.Clean (jobs.go 250-259).                                        *)
(***************************************************************************)
\* a Clean that also drops the stopped jobs
Clean_Stopped ==
    /\ mu = 0
    /\ table' = {id \in table : jobs[id].State = JobRunning}
    /\ UNCHANGED <<jobs, nextID, issued, mu, proc, mon, clock, call,
                   storeVars, shellVars, execVars, pipeVars>>

Clean ==
    /\ mu = 0
    /\ table' = {id \in table : jobs[id].State # JobDone /\ jobs[id].State # JobKilled}
    /\ UNCHANGED <<jobs, nextID, issued, mu, proc, mon, clock, call,
                   storeVars, shellVars, execVars, pipeVars>>

(***************************************************************************)
(* Manager.monitor (jobs.go 284-308), one goroutine per job:               *)
(*   MonitorWait    err := job.Cmd.Wait()                                  *)
(*   MonitorLock    m.mu.Lock()                                            *)
(*   MonitorRecord  lines 294-307, and the deferred Unlock                 *)
(***************************************************************************)
MonitorWait(j) ==
    /\ j \in DOMAIN mon
    /\ mon[j].pc = "wait"
    /\ Exited(j)
    /\ mon' = [mon EXCEPT ![j] = [pc |-> "lock", err |-> WaitResult(j)]]
    /\ proc' = [proc EXCEPT ![j].st = "reaped"]
    /\ UNCHANGED <<jobs, table, nextID, issued, mu, clock, call,
                   storeVars, shellVars, execVars, pipeVars>>

MonitorLock(j) ==
    /\ j \in DOMAIN mon
    /\ mon[j].pc = "lock"
    /\ mu = 0
    /\ mu' = j
    /\ mon' = [mon EXCEPT ![j].pc = "record"]
    /\ UNCHANGED <<jobs, table, nextID, issued, proc, clock, call,
                   storeVars, shellVars, execVars, pipeVars>>

\* lines 297-307: any error of Wait makes the job Killed
MonitorState(err) == IF err # "nil" THEN JobKilled ELSE JobDone

\* lines 298-305: the exit code is taken from an ExitError, set to 0 on a
\* nil error, and left as it was on any other error
MonitorExitCode(j) ==
    IF mon[j].err = "exit" THEN ExitStatus(j)
    ELSE IF mon[j].err = "nil" THEN 0
    ELSE jobs[j].ExitCode

MonitorRecord(j) ==
    /\ j \in DOMAIN mon
    /\ mon[j].pc = "record"
    /\ mu = j
    /\ jobs' = [jobs EXCEPT ![j].Finished = TimeAt(clock),
                            ![j].ExitCode = MonitorExitCode(j),
                            ![j].State = MonitorState(mon[j].err)]
    /\ mu' = 0
    /\ mon' = [mon EXCEPT ![j].pc = "done"]
    /\ UNCHANGED <<table, nextID, issued, proc, clock, call,
                   storeVars, shellVars, execVars, pipeVars>>

(***************************************************************************)
(* Manager.Print (jobs.go 310-334): List() under the shared lock, then     *)
(* each job's State and Finished are read with the lock released.          *)
(***************************************************************************)
PrintList ==
    /\ Idle
    /\ mu = 0
    /\ call' = IF table = {}
               THEN NewCall("Print", "ret", 0, "nil")
               ELSE [NewCall("Print", "read", 0, "none") EXCEPT !.todo = table]
    /\ UNCHANGED <<jobs, table, nextID, issued, mu, proc, mon, clock,
                   storeVars, shellVars, execVars, pipeVars>>

PrintJob(j) ==
    /\ call.op = "Print"
    /\ call.pc = "read"
    /\ j \in call.todo
    /\ call' = IF call.todo = {j}
               THEN [call EXCEPT !.pc = "ret", !.res = "nil", !.todo = {}]
               ELSE [call EXCEPT !.todo = call.todo \ {j}]
    /\ UNCHANGED <<jobs, table, nextID, issued, mu, proc, mon, clock,
                   storeVars, shellVars, execVars, pipeVars>>

(***************************************************************************)
(* The Job Manager with any callers, its monitors and the processes.       *)
(***************************************************************************)
NextCore ==
    \/ Add
    \/ \E id \in IdSet : Kill(id)
    \/ \E id \in IdSet : Stop(id)
    \/ \E id \in IdSet : Continue(id)
    \/ Clean
    \/ \E j \in IdSet : MonitorWait(j)
    \/ \E j \in IdSet : MonitorLock(j)
    \/ \E j \in IdSet : MonitorRecord(j)
    \/ \E j \in IdSet, how \in {"exit0", "exit1", "signal"} : ProcExit(j, how)

NextCalls ==
    \/ \E id \in IdSet : FgGet(id)
    \/ FgCheck
    \/ FgContinue
    \/ FgWait
    \/ \E id \in IdSet : BgGet(id)
    \/ BgCheck
    \/ BgContinue
    \/ \E id \in IdSet : WjGet(id)
    \/ WjWait

NextPrint ==
    \/ PrintList
    \/ \E j \in IdSet : PrintJob(j)

(***************************************************************************)
(* variables.go: the Variable Store and the process environment.           *)
(* Every operation below holds Manager.mu exclusively from its first       *)
(* statement to its return (m.mu.Lock(); defer m.mu.Unlock()), so          *)
(* concurrent callers are serialised and each operation is one step.       *)
(***************************************************************************)
\* The names and values callers pass; "" is the name `export =v` passes.
VarNames == {"", "X"}
VarValues == {"", "v"}
\* SetArray is passed at most MaxValues values, SetArrayElement an index
\* in 0..MaxIndex.
MaxValues == 1
MaxIndex == 1

ArrayValues == UNION {[1..n -> VarValues] : n \in 0..MaxValues}

\* The environments the process may be started with: os.Environ() holds
\* no entry with an empty name.
Environs == UNION {[S -> VarValues] : S \in SUBSET (VarNames \ {""})}

\* m[k] = v, for a map m
Put(m, k, v) == [n \in DOMAIN m \cup {k} |-> IF n = k THEN v ELSE m[n]]

\* delete(m, k), for a map m
Delete(m, k) == [n \in DOMAIN m \ {k} |-> m[n]]

\* os.Getenv: the empty string for a name the environment does not hold
Getenv(e, name) == IF name \in DOMAIN e THEN e[name] ELSE ""

\* os.Setenv: fails with EINVAL on an empty name and leaves the
\* environment as it was; the Store ignores the error
Setenv(e, name, value) == IF name = "" THEN e ELSE Put(e, name, value)

\* os.Unsetenv
Unsetenv(e, name) == Delete(e, name)

\* strings.Join(values, " ")
RECURSIVE Join(_)
Join(values) ==
    IF values = <<>> THEN ""
    ELSE IF Len(values) = 1 THEN values[1]
    ELSE values[1] \o " " \o Join(Tail(values))

Variable(value, exported, readOnly, array, values) ==
    [Value |-> value, Exported |-> exported, ReadOnly |-> readOnly,
     Array |-> array, Values |-> values]

loadEnvironment(e) ==
    [n \in DOMAIN e |-> Variable(e[n], TRUE, FALSE, FALSE, <<>>)]

\* New, in a process started with environment e
InitStore(e) ==
    /\ env = e
    /\ store = loadEnvironment(e)
    /\ storeErr = "nil"

\* a Store in which the read-only flag stops nothing
IsReadOnly_Never(name) == FALSE

IsReadOnly(name) == name \in DOMAIN store /\ store[name].ReadOnly

\* return fmt.Errorf(...): nothing is written
Fails(e) == storeErr' = e /\ UNCHANGED <<store, env>>

\* the body of Set: what it writes and returns
SetWrites(name, value) ==
    IF IsReadOnly(name)
    THEN Fails("readonly")
    ELSE LET exported == name \in DOMAIN store /\ store[name].Exported
         IN /\ store' = Put(store, name,
                            Variable(value, exported, FALSE, FALSE, <<>>))
            /\ env' = IF exported THEN Setenv(env, name, value) ELSE env
            /\ storeErr' = "nil"

\* Set, called on its own
Set(name, value) ==
    /\ SetWrites(name, value)
    /\ UNCHANGED <<jobVars, shellVars, execVars, pipeVars>>

Export(name) ==
    /\ IF name \in DOMAIN store
       THEN /\ store' = [store EXCEPT ![name].Exported = TRUE]
            /\ env' = Setenv(env, name, store[name].Value)
            /\ storeErr' = "nil"
       ELSE /\ store' = Put(store, name,
                            Variable(Getenv(env, name), TRUE, FALSE, FALSE, <<>>))
            /\ env' = env
            /\ storeErr' = "nil"
    /\ UNCHANGED <<jobVars, shellVars, execVars, pipeVars>>

Unset(name) ==
    /\ IF IsReadOnly(name)
       THEN Fails("readonly")
       ELSE /\ store' = Delete(store, name)
            /\ env' = Unsetenv(env, name)
            /\ storeErr' = "nil"
    /\ UNCHANGED <<jobVars, shellVars, execVars, pipeVars>>

SetReadOnly(name) ==
    /\ IF name \in DOMAIN store
       THEN /\ store' = [store EXCEPT ![name].ReadOnly = TRUE]
            /\ env' = env
            /\ storeErr' = "nil"
       ELSE Fails("notfound")
    /\ UNCHANGED <<jobVars, shellVars, execVars, pipeVars>>

SetArray(name, values) ==
    /\ IF IsReadOnly(name)
       THEN Fails("readonly")
       ELSE LET exported == name \in DOMAIN store /\ store[name].Exported
            IN /\ store' = Put(store, name,
                               Variable(Join(values), exported, FALSE, TRUE, values))
               /\ env' = IF exported THEN Setenv(env, name, Join(values)) ELSE env
               /\ storeErr' = "nil"
    /\ UNCHANGED <<jobVars, shellVars, execVars, pipeVars>>

\* for len(v.Values) <= index { v.Values = append(v.Values, "") }
Pad(values, index) ==
    IF Len(values) <= index
    THEN values \o [i \in 1..(index + 1 - Len(values)) |-> ""]
    ELSE values

\* a name the map does not hold gets an empty array first; the map keeps
\* that entry only on the path that goes on, and on that path it is written
SetArrayElement(name, index, value) ==
    /\ IF IsReadOnly(name)
       THEN Fails("readonly")
       ELSE LET v == IF name \in DOMAIN store THEN store[name]
                     ELSE Variable("", FALSE, FALSE, TRUE, <<>>)
                values == [Pad(v.Values, index) EXCEPT ![index + 1] = value]
            IN IF ~v.Array
               THEN Fails("notarray")
               ELSE /\ store' = Put(store, name,
                                    [v EXCEPT !.Values = values,
                                              !.Value = Join(values)])
                    /\ env' = IF v.Exported THEN Setenv(env, name, Join(values))
                              ELSE env
                    /\ storeErr' = "nil"
    /\ UNCHANGED <<jobVars, shellVars, execVars, pipeVars>>

NextVars ==
    \/ \E name \in VarNames, value \in VarValues : Set(name, value)
    \/ \E name \in VarNames : Export(name)
    \/ \E name \in VarNames : Unset(name)
    \/ \E name \in VarNames : SetReadOnly(name)
    \/ \E name \in VarNames, values \in ArrayValues : SetArray(name, values)
    \/ \E name \in VarNames, index \in 0..MaxIndex, value \in VarValues :
          SetArrayElement(name, index, value)

(***************************************************************************)
(* parser.go: the lexer.  A line is a sequence of one-character strings;   *)
(* positions count from 0 as in the source.                                *)
(***************************************************************************)
\* The characters of the input lines, and the longest line.
Chars == {"a", " ", "&", ";", "|", ">"}
MaxLine == 3

Lines == UNION {[1..n -> Chars] : n \in 0..MaxLine}

\* TokenType (the iota block of lines 199-211)
TokenWord == 0
TokenPipe == 1
TokenRedirectOut == 2
TokenRedirectIn == 3
TokenRedirectAppend == 4
TokenSemicolon == 5
TokenNewline == 6
TokenAnd == 7
TokenOr == 8
TokenBackground == 9
TokenEOF == 10

\* Token, without the Pos field that nothing reads
Token(type, value) == [Type |-> type, Value |-> value]

\* unicode.IsSpace, on the one-byte characters
IsSpace(c) == c \in {" ", "\t", "\n", "\r", "\f"}

\* input[p] of the source, and l.pos+1 < len(l.input) && l.input[l.pos+1] == c
At(input, p) == input[p + 1]
NextIs(input, p, c) == p + 1 < Len(input) /\ At(input, p + 1) = c

\* input[a:b]
Slice(input, a, b) == SubSeq(input, a + 1, b)

RECURSIVE skipWhitespace(_, _)
skipWhitespace(input, p) ==
    IF p < Len(input) /\ IsSpace(At(input, p)) /\ At(input, p) # "\n"
    THEN skipWhitespace(input, p + 1)
    ELSE p

RECURSIVE skipComment(_, _)
skipComment(input, p) ==
    IF p < Len(input) /\ At(input, p) # "\n"
    THEN skipComment(input, p + 1)
    ELSE p

\* the loop of tokenizeWord: where the word that starts at p ends
RECURSIVE wordEnd(_, _)
wordEnd(input, p) ==
    IF p < Len(input)
       /\ ~(IsSpace(At(input, p)) \/ At(input, p) \in {"|", "&", ">", "<", ";"})
    THEN wordEnd(input, p + 1)
    ELSE p

tokenizeWord(input, p) ==
    [tok |-> Token(TokenWord, Slice(input, p, wordEnd(input, p))),
     pos |-> wordEnd(input, p)]

\* the loop of tokenizeQuotedString: where the region that starts at p ends
RECURSIVE quoteEnd(_, _, _)
quoteEnd(input, p, quote) ==
    IF p < Len(input) /\ At(input, p) # quote
    THEN IF At(input, p) = "\\" /\ p + 1 < Len(input)
         THEN quoteEnd(input, p + 2, quote)
         ELSE quoteEnd(input, p + 1, quote)
    ELSE p

tokenizeQuotedString(input, p) ==
    LET quote == At(input, p)
        start == p + 1
        end == quoteEnd(input, start, quote)
    IN IF end >= Len(input)
       THEN [tok |-> Token(TokenWord, Slice(input, start, Len(input))), pos |-> end]
       ELSE [tok |-> Token(TokenWord, Slice(input, start, end)), pos |-> end + 1]

\* the loop of Tokenize, from position p on
RECURSIVE TokenizeFrom(_, _)
TokenizeFrom(input, p) ==
    IF p >= Len(input) THEN <<Token(TokenEOF, <<>>)>>
    ELSE LET c == At(input, p)
             one(type) == <<Token(type, <<c>>)>> \o TokenizeFrom(input, p + 1)
             two(type) == <<Token(type, <<c, c>>)>> \o TokenizeFrom(input, p + 2)
         IN CASE IsSpace(c) /\ c = "\n" -> one(TokenNewline)
              [] IsSpace(c) /\ c # "\n" -> TokenizeFrom(input, skipWhitespace(input, p))
              [] c = "|" -> IF NextIs(input, p, "|") THEN two(TokenOr) ELSE one(TokenPipe)
              [] c = "&" -> IF NextIs(input, p, "&") THEN two(TokenAnd)
                            ELSE one(TokenBackground)
              [] c = ">" -> IF NextIs(input, p, ">") THEN two(TokenRedirectAppend)
                            ELSE one(TokenRedirectOut)
              [] c = "<" -> one(TokenRedirectIn)
              [] c = ";" -> one(TokenSemicolon)
              [] c \in {"\"", "'"} ->
                    <<tokenizeQuotedString(input, p).tok>>
                    \o TokenizeFrom(input, tokenizeQuotedString(input, p).pos)
              [] c = "#" -> TokenizeFrom(input, skipComment(input, p))
              [] OTHER ->
                    <<tokenizeWord(input, p).tok>>
                    \o TokenizeFrom(input, tokenizeWord(input, p).pos)

Tokenize(input) == TokenizeFrom(input, 0)

(***************************************************************************)
(* ast.go and parser.go: the command tree and the parser.  Each parse      *)
(* function is an operator from the token sequence and p.pos to its        *)
(* result [err, cmd, pos]: the error flag, the command, and p.pos after.   *)
(***************************************************************************)
\* CommandType (ast.go, the iota block of lines 5-17), as far as Parse
\* builds and Execute dispatches on it here
CommandSimple == 0
CommandPipeline == 1
CommandBackground == 2
CommandList == 3
CommandIf == 4
CommandFor == 5
CommandWhile == 6

\* a nil *ast.Command
Nil == [Type |-> -1]

current(toks, p) == IF p >= Len(toks) THEN Token(TokenEOF, <<>>) ELSE toks[p + 1]

advance(toks, p) == IF p < Len(toks) THEN p + 1 ELSE p

Result(err, cmd, p) == [err |-> err, cmd |-> cmd, pos |-> p, hang |-> FALSE]

\* ast.go: RedirectType
RedirectInput == 0
RedirectOutput == 1
RedirectAppend == 2

\* the switch of lines 168-176
redirectType(tokenType) ==
    CASE tokenType = TokenRedirectOut -> RedirectOutput
      [] tokenType = TokenRedirectIn -> RedirectInput
      [] tokenType = TokenRedirectAppend -> RedirectAppend

parseRedirect(toks, p) ==
    LET token == current(toks, p)
        q == advance(toks, p)
    IN IF q >= Len(toks) \/ current(toks, q).Type # TokenWord
       THEN Result(TRUE, Nil, q)
       ELSE Result(FALSE, [Type |-> redirectType(token.Type),
                           Target |-> current(toks, q).Value],
                   advance(toks, q))

\* the loop of parseSimpleCommand, and what follows its label done
RECURSIVE simpleFrom(_, _, _, _)
simpleFrom(toks, p, args, redirects) ==
    LET token == current(toks, p)
        done == IF Len(args) = 0
                THEN Result(FALSE, Nil, p)
                ELSE Result(FALSE,
                            [Type |-> CommandSimple, Name |-> args[1],
                             Args |-> Tail(args), Redirects |-> redirects], p)
    IN IF p >= Len(toks) THEN done
       ELSE IF token.Type = TokenWord
       THEN simpleFrom(toks, advance(toks, p), Append(args, token.Value), redirects)
       ELSE IF token.Type \in {TokenRedirectOut, TokenRedirectIn, TokenRedirectAppend}
       THEN IF parseRedirect(toks, p).err
            THEN parseRedirect(toks, p)
            ELSE simpleFrom(toks, parseRedirect(toks, p).pos, args,
                            Append(redirects, parseRedirect(toks, p).cmd))
       ELSE done

parseSimpleCommand(toks, p) == simpleFrom(toks, p, <<>>, <<>>)

\* the loop of parsePipeline, with left parsed so far
RECURSIVE pipelineFrom(_, _, _)
pipelineFrom(toks, p, left) ==
    IF p < Len(toks) /\ current(toks, p).Type = TokenPipe
    THEN LET right == parseSimpleCommand(toks, advance(toks, p))
         IN IF right.err THEN right
            ELSE pipelineFrom(toks, right.pos,
                              [Type |-> CommandPipeline, Left |-> left,
                               Right |-> right.cmd])
    ELSE Result(FALSE, left, p)

parsePipeline(toks, p) ==
    LET left == parseSimpleCommand(toks, p)
    IN IF left.err THEN left ELSE pipelineFrom(toks, left.pos, left.cmd)

\* the loop of parseCommand, with cmds and ops collected so far
RECURSIVE listFrom(_, _, _, _)
listFrom(toks, p, cmds, ops) ==
    IF p < Len(toks) /\ current(toks, p).Type \in {TokenAnd, TokenOr}
    THEN LET opTok == current(toks, p)
             right == parsePipeline(toks, advance(toks, p))
         IN IF right.err THEN right
            ELSE listFrom(toks, right.pos, Append(cmds, right.cmd),
                          Append(ops, IF opTok.Type = TokenAnd THEN "&&" ELSE "||"))
    ELSE IF Len(cmds) = 1
    THEN Result(FALSE, cmds[1], p)
    ELSE Result(FALSE, [Type |-> CommandList, Commands |-> cmds, Operators |-> ops], p)

\* the keywords, as the lexer delivers them: words
If == <<"i", "f">>
Then == <<"t", "h", "e", "n">>
Else == <<"e", "l", "s", "e">>
Elif == <<"e", "l", "i", "f">>
Fi == <<"f", "i">>
While == <<"w", "h", "i", "l", "e">>
For == <<"f", "o", "r">>
In == <<"i", "n">>
Do == <<"d", "o">>
Done == <<"d", "o", "n", "e">>

\* p.current().Type == TokenWord && p.current().Value is one of words
IsWord(toks, p, words) ==
    current(toks, p).Type = TokenWord /\ current(toks, p).Value \in words

\* the loops that collect tokens up to a keyword: the position they stop at
RECURSIVE scanUntil(_, _, _)
scanUntil(toks, p, words) ==
    IF p < Len(toks) /\ ~IsWord(toks, p, words)
    THEN scanUntil(toks, advance(toks, p), words)
    ELSE p

\* the tokens at the positions a..b-1
Span(toks, a, b) == SubSeq(toks, a + 1, b)

\* strings.Join(tokensToStrings(ts), " ")
RECURSIVE JoinTokens(_)
JoinTokens(ts) ==
    IF ts = <<>> THEN <<>>
    ELSE IF Len(ts) = 1 THEN ts[1].Value
    ELSE ts[1].Value \o <<" ">> \o JoinTokens(Tail(ts))

\* What a call of Parse comes to: the commands, a ParseError, or no return
\* at all (hang).
Parsed(cmds) == [err |-> FALSE, hang |-> FALSE, cmds |-> cmds]
Failed == [err |-> TRUE, hang |-> FALSE, cmds |-> <<>>]
Hung == [err |-> FALSE, hang |-> TRUE, cmds |-> <<>>]

\* a parse function that called a Parse which does not return
Stuck(p) == [err |-> FALSE, cmd |-> Nil, pos |-> p, hang |-> TRUE]

RECURSIVE parseCommand(_, _)
RECURSIVE ParseFrom(_, _, _)

\* Parse on a fresh or used Parser: the lexer, the tokens and the position
\* are set anew (lines 23-25)
Parse(input) == ParseFrom(Tokenize(input), 0, <<>>)

\* cmds[0] of a parsed body, nil for an empty one
FirstOf(cmds) == IF Len(cmds) > 0 THEN cmds[1] ELSE Nil

\* the loop over elif of lines 447-466: it moves p.pos and may fail; the
\* tokens it collects are not used
RECURSIVE elifFrom(_, _)
elifFrom(toks, p) ==
    IF p < Len(toks) /\ IsWord(toks, p, {Elif})
    THEN LET cond == scanUntil(toks, advance(toks, p), {Then})
         IN IF cond >= Len(toks) THEN [err |-> TRUE, pos |-> cond]
            ELSE elifFrom(toks, scanUntil(toks, advance(toks, cond), {Elif, Else, Fi}))
    ELSE [err |-> FALSE, pos |-> p]

parseIf(toks, p) ==
    LET condStart == advance(toks, p)
        condEnd == scanUntil(toks, condStart, {Then})
        thenStart == advance(toks, condEnd)
        thenEnd == scanUntil(toks, thenStart, {Else, Fi})
        hasElse == thenEnd < Len(toks) /\ IsWord(toks, thenEnd, {Else})
        elseStart == advance(toks, thenEnd)
        elseEnd == IF hasElse THEN scanUntil(toks, elseStart, {Fi}) ELSE thenEnd
        elseTokens == IF hasElse THEN Span(toks, elseStart, elseEnd) ELSE <<>>
        after == advance(toks, elseEnd)
        condCmds == parsePipeline(Span(toks, condStart, condEnd), 0)
        thenCmd == Parse(JoinTokens(Span(toks, thenStart, thenEnd)))
        elseCmds == IF Len(elseTokens) > 0 THEN Parse(JoinTokens(elseTokens))
                    ELSE Parsed(<<>>)
        elifs == elifFrom(toks, after)
    IN IF condEnd >= Len(toks) THEN Result(TRUE, Nil, condEnd)
       ELSE IF elseEnd >= Len(toks) THEN Result(TRUE, Nil, elseEnd)
       ELSE IF condCmds.err THEN Result(TRUE, Nil, after)
       ELSE IF thenCmd.hang THEN Stuck(after)
       ELSE IF thenCmd.err THEN Result(TRUE, Nil, after)
       ELSE IF elseCmds.hang THEN Stuck(after)
       ELSE IF elifs.err THEN Result(TRUE, Nil, elifs.pos)
       ELSE Result(FALSE,
                   [Type |-> CommandIf, Condition |-> condCmds.cmd,
                    Then |-> FirstOf(thenCmd.cmds), Else |-> FirstOf(elseCmds.cmds)],
                   elifs.pos)

parseWhile(toks, p) ==
    LET condStart == advance(toks, p)
        condEnd == scanUntil(toks, condStart, {Do})
        bodyStart == advance(toks, condEnd)
        bodyEnd == scanUntil(toks, bodyStart, {Done})
        after == advance(toks, bodyEnd)
        condCmd == parsePipeline(Span(toks, condStart, condEnd), 0)
        bodyCmds == Parse(JoinTokens(Span(toks, bodyStart, bodyEnd)))
    IN IF condEnd >= Len(toks) THEN Result(TRUE, Nil, condEnd)
       ELSE IF bodyEnd >= Len(toks) THEN Result(TRUE, Nil, bodyEnd)
       ELSE IF bodyCmds.hang THEN Stuck(after)
       ELSE Result(FALSE,
                   [Type |-> CommandWhile, Condition |-> condCmd.cmd,
                    Body |-> FirstOf(bodyCmds.cmds)],
                   after)

\* the loop that collects the values of a for, from position p on
RECURSIVE forValues(_, _)
forValues(toks, p) ==
    IF p < Len(toks) /\ ~IsWord(toks, p, {Do})
    THEN (IF current(toks, p).Type = TokenWord THEN <<current(toks, p).Value>>
          ELSE <<>>) \o forValues(toks, advance(toks, p))
    ELSE <<>>

parseFor(toks, p) ==
    LET varAt == advance(toks, p)
        inAt == advance(toks, varAt)
        valuesStart == advance(toks, inAt)
        valuesEnd == scanUntil(toks, valuesStart, {Do})
        bodyStart == advance(toks, valuesEnd)
        bodyEnd == scanUntil(toks, bodyStart, {Done})
        after == advance(toks, bodyEnd)
        bodyCmds == Parse(JoinTokens(Span(toks, bodyStart, bodyEnd)))
    IN IF current(toks, varAt).Type # TokenWord THEN Result(TRUE, Nil, varAt)
       ELSE IF ~IsWord(toks, inAt, {In}) THEN Result(TRUE, Nil, inAt)
       ELSE IF valuesEnd >= Len(toks) THEN Result(TRUE, Nil, valuesEnd)
       ELSE IF bodyEnd >= Len(toks) THEN Result(TRUE, Nil, bodyEnd)
       ELSE IF bodyCmds.hang THEN Stuck(after)
       ELSE Result(FALSE,
                   [Type |-> CommandFor, Variable |-> current(toks, varAt).Value,
                    Values |-> forValues(toks, valuesStart),
                    Body |-> FirstOf(bodyCmds.cmds)],
                   after)

parseCommand(toks, p) ==
    IF IsWord(toks, p, {If}) THEN parseIf(toks, p)
    ELSE IF IsWord(toks, p, {While}) THEN parseWhile(toks, p)
    ELSE IF IsWord(toks, p, {For}) THEN parseFor(toks, p)
    ELSE LET left == parsePipeline(toks, p)
         IN IF left.err THEN left ELSE listFrom(toks, left.pos, <<left.cmd>>, <<>>)

\* where Parse's loop stands after a command that ended at p: past a `;`
\* or a newline (lines 47-49)
afterCommand(toks, p) ==
    IF p < Len(toks) /\ current(toks, p).Type \in {TokenSemicolon, TokenNewline}
    THEN advance(toks, p)
    ELSE p

\* the loop of Parse from position p on, with the commands cmds collected so
\* far.  An iteration that yields no command and moves no position leaves
\* the parser as it found it, and so does every iteration after it: Parse
\* does not return.
ParseFrom(toks, p, cmds) ==
    IF ~(p < Len(toks)) \/ current(toks, p).Type = TokenEOF THEN Parsed(cmds)
    ELSE IF current(toks, p).Type = TokenNewline
    THEN ParseFrom(toks, advance(toks, p), cmds)
    ELSE LET r == parseCommand(toks, p)
         IN IF r.hang THEN Hung
            ELSE IF r.err THEN Failed
            ELSE IF r.cmd = Nil /\ afterCommand(toks, r.pos) = p THEN Hung
            ELSE ParseFrom(toks, afterCommand(toks, r.pos),
                           IF r.cmd # Nil THEN Append(cmds, r.cmd) ELSE cmds)

(***************************************************************************)
(* The executor.  A world w holds what the evaluation meets outside the    *)
(* tree:                                                                   *)
(*   status: the status each command name returns when it is run, as a     *)
(*           builtin or as an external process (which the executor waits   *)
(*           for)                                                          *)
(*   PATH:   the value of the variable PATH                                *)
(*   files:  the paths os.Stat finds                                       *)
(*   fs:     the content of each file a redirect may name, for the files   *)
(*           that exist                                                    *)
(*   denied: the paths that os.Open, os.Create and os.OpenFile fail on     *)
(*   signal: the signal that ends the process of each command name, 0 when *)
(*           no signal ends it and it exits with its status                *)
(*   vars:   the variables of the store, [Name, Value], in the order in    *)
(*           which a range over the map yields them in this evaluation     *)
(* A path is a sequence of atoms: the characters of a name, directory      *)
(* names, "/" and ":".                                                     *)
(* The result is [code, panic, hang, tasks, events]: the status returned,  *)
(* whether the evaluation dereferenced a nil command, the number of        *)
(* goroutines executeBackground started, and what was done for each        *)
(* simple command, in the order left stage, right stage within a pipeline: *)
(* the files opened for it, the process started, what the process wrote to *)
(* a file.                                                                 *)
(***************************************************************************)
\* The exit statuses of a command that is run.
Statuses == {0, 1}

WordChars == {c \in Chars : ~(IsSpace(c) \/ c \in {"|", "&", ">", "<", ";", "\"", "'", "#"})}
CmdNames == UNION {[1..n -> WordChars] : n \in 1..MaxLine}

\* The names initializeBuiltins registers, among the names of the model.
Builtins == {<<"b">>}

Returns(code) == [code |-> code, panic |-> FALSE, hang |-> FALSE, tasks |-> 0, events |-> <<>>]
Panic == [code |-> 2, panic |-> TRUE, hang |-> FALSE, tasks |-> 0, events |-> <<>>]

\* what was done for the simple command name standing at stage:
\*   builtin  (the builtin function was invoked)
\*   spawn    (an external process was started for path)
\*   notfound (status 127, nothing started)
\*   lost     (a left stage that resolves to nothing: nothing started)
Event(kind, name, stage, path) ==
    [kind |-> kind, name |-> name, stage |-> stage, path |-> path]

Did(code, event) ==
    [code |-> code, panic |-> FALSE, hang |-> FALSE, tasks |-> 0, events |-> <<event>>]

\* strings.Contains(s, c), for one atom c
Contains(s, c) == \E i \in 1..Len(s) : s[i] = c

\* strings.Split(s, sep), for one atom sep
RECURSIVE Split(_, _)
Split(s, sep) ==
    IF ~Contains(s, sep) THEN <<s>>
    ELSE LET i == CHOOSE k \in 1..Len(s) :
                      s[k] = sep /\ \A m \in 1..(k - 1) : s[m] # sep
         IN <<SubSeq(s, 1, i - 1)>> \o Split(SubSeq(s, i + 1, Len(s)), sep)

\* filepath.Join(dir, name): an empty element is dropped
PathJoin(dir, name) ==
    IF dir = <<>> THEN name
    ELSE IF name = <<>> THEN dir
    ELSE dir \o <<"/">> \o name

\* "/usr/local/bin:/usr/bin:/bin"
DefaultPath == <<"/usr/local/bin", ":", "/usr/bin", ":", "/bin">>

Found(path) == [err |-> FALSE, path |-> path]
NotFound == [err |-> TRUE, path |-> <<>>]

\* the loop of findCommand over the directories
RECURSIVE findIn(_, _, _)
\* a search that prefers the later directories
findIn_Last(dirs, name, files) ==
    IF dirs = <<>> THEN NotFound
    ELSE IF ~findIn(Tail(dirs), name, files).err
    THEN findIn(Tail(dirs), name, files)
    ELSE IF PathJoin(Head(dirs), name) \in files
    THEN Found(PathJoin(Head(dirs), name))
    ELSE NotFound

findIn(dirs, name, files) ==
    IF dirs = <<>> THEN NotFound
    ELSE IF PathJoin(Head(dirs), name) \in files
    THEN Found(PathJoin(Head(dirs), name))
    ELSE findIn(Tail(dirs), name, files)

findCommand(name, w) ==
    IF Contains(name, "/")
    THEN IF name \in w.files THEN Found(name) ELSE NotFound
    ELSE LET path == IF w.PATH = <<>> THEN DefaultPath ELSE w.PATH
         IN findIn(Split(path, ":"), name, w.files)

\* SIGKILL and SIGTERM
Signals == {9, 15}

\* no process is ended by a signal
NoSignal == [name \in {} |-> 0]

\* The wait status of the process of name, in the layout of
\* syscall.WaitStatus on Linux: the signal in the low seven bits, the exit
\* status in the next byte.
waitStatus(name, w) ==
    IF name \in DOMAIN w.signal /\ w.signal[name] # 0
    THEN w.signal[name]
    ELSE w.status[name] * 256

\* syscall.WaitStatus.ExitStatus: -1 unless the process exited
WaitExitStatus(status) ==
    IF status % 128 # 0 THEN -1 ELSE (status \div 256) % 256

\* what follows cmd.Run(): nil for a process that exits with status 0,
\* else an *exec.ExitError, of which ExitStatus is returned
runStatus(name, w) ==
    IF waitStatus(name, w) = 0 THEN 0 ELSE WaitExitStatus(waitStatus(name, w))

\* a file was opened: os.Open (open), os.Create (create), or os.OpenFile
\* with O_WRONLY|O_CREATE|O_APPEND (append)
Opened(how, target) == [kind |-> how, target |-> target]

\* a process wrote data to the file that is its standard output
Wrote(target, append, data) ==
    [kind |-> "write", target |-> target, append |-> append, data |-> data]

\* a write of data at the start of a file opened without O_APPEND
Overwrite(content, data) ==
    data \o SubSeq(content, Len(data) + 1, Len(content))

\* the files after the events, from the files fs
RECURSIVE Effects(_, _)
Effects(events, fs) ==
    IF events = <<>> THEN fs
    ELSE LET event == Head(events)
             now == CASE event.kind = "create" -> Put(fs, event.target, <<>>)
                      [] event.kind = "append" ->
                            IF event.target \in DOMAIN fs THEN fs
                            ELSE Put(fs, event.target, <<>>)
                      [] event.kind = "write" ->
                            Put(fs, event.target,
                                IF event.append
                                THEN fs[event.target] \o event.data
                                ELSE Overwrite(fs[event.target], event.data))
                      [] OTHER -> fs
         IN Effects(Tail(events), now)

\* os.Stdout
Terminal == <<>>

\* no file exists
NoFiles == <<>>

\* the process read its standard input, which is the file target
ReadFrom(target) == [kind |-> "read", target |-> target]

\* cmd.Stdin, cmd.Stdout after the redirects so far; Terminal for a nil field
Streams(stdin, stdout, append) == [stdin |-> stdin, file |-> stdout, append |-> append]

\* the loop of setupRedirects from redirect i on (counted from 0): so far
\* the files were opened as events tell and the streams of cmd are bound
\* a loop that keeps the first file bound to a stream
RECURSIVE redirectsFrom(_, _, _, _, _)
redirectsFrom_First(redirects, i, events, bound, w) ==
    IF i >= Len(redirects)
    THEN [err |-> FALSE, events |-> events, stdout |-> bound]
    ELSE LET redirect == redirects[i + 1]
             target == redirect.Target
             fs == Effects(events, w.fs)
             failed == [err |-> TRUE, events |-> events, stdout |-> bound]
         IN CASE redirect.Type = RedirectInput ->
                    IF target \in DOMAIN fs /\ target \notin w.denied
                    THEN redirectsFrom(redirects, i + 1,
                                       Append(events, Opened("open", target)),
                                       IF bound.stdin = Terminal
                                       THEN [bound EXCEPT !.stdin = target]
                                       ELSE bound, w)
                    ELSE failed
              [] redirect.Type = RedirectOutput ->
                    IF target \notin w.denied
                    THEN redirectsFrom(redirects, i + 1,
                                       Append(events, Opened("create", target)),
                                       IF bound.file = Terminal
                                       THEN Streams(bound.stdin, target, FALSE)
                                       ELSE bound, w)
                    ELSE failed
              [] redirect.Type = RedirectAppend ->
                    IF target \notin w.denied
                    THEN redirectsFrom(redirects, i + 1,
                                       Append(events, Opened("append", target)),
                                       IF bound.file = Terminal
                                       THEN Streams(bound.stdin, target, TRUE)
                                       ELSE bound, w)
                    ELSE failed

redirectsFrom(redirects, i, events, bound, w) ==
    IF i >= Len(redirects)
    THEN [err |-> FALSE, events |-> events, stdout |-> bound]
    ELSE LET redirect == redirects[i + 1]
             target == redirect.Target
             fs == Effects(events, w.fs)
             failed == [err |-> TRUE, events |-> events, stdout |-> bound]
         IN CASE redirect.Type = RedirectInput ->
                    IF target \in DOMAIN fs /\ target \notin w.denied
                    THEN redirectsFrom(redirects, i + 1,
                                       Append(events, Opened("open", target)),
                                       [bound EXCEPT !.stdin = target], w)
                    ELSE failed
              [] redirect.Type = RedirectOutput ->
                    IF target \notin w.denied
                    THEN redirectsFrom(redirects, i + 1,
                                       Append(events, Opened("create", target)),
                                       Streams(bound.stdin, target, FALSE), w)
                    ELSE failed
              [] redirect.Type = RedirectAppend ->
                    IF target \notin w.denied
                    THEN redirectsFrom(redirects, i + 1,
                                       Append(events, Opened("append", target)),
                                       Streams(bound.stdin, target, TRUE), w)
                    ELSE failed

setupRedirects(redirects, w) ==
    redirectsFrom(redirects, 0, <<>>, Streams(Terminal, Terminal, FALSE), w)

\* what an external command writes to its standard output
Output == <<"o">>

\* cmd.Run(): the process reads its standard input when that is a file, and
\* writes Output to its standard output
executeExternal(name, redirects, w) ==
    IF findCommand(name, w).err
    THEN Did(127, Event("notfound", name, "alone", <<>>))
    ELSE LET opened == setupRedirects(redirects, w)
             spawn == Event("spawn", name, "alone", findCommand(name, w).path)
             read == IF opened.stdout.stdin = Terminal THEN <<>>
                     ELSE <<ReadFrom(opened.stdout.stdin)>>
             written == IF opened.stdout.file = Terminal THEN <<>>
                        ELSE <<Wrote(opened.stdout.file, opened.stdout.append, Output)>>
         IN IF opened.err
            THEN [code |-> 1, panic |-> FALSE, hang |-> FALSE, tasks |-> 0, events |-> opened.events]
            ELSE [code |-> runStatus(name, w), panic |-> FALSE, hang |-> FALSE, tasks |-> 0,
                  events |-> opened.events \o <<spawn>> \o read \o written]

\* strings.ReplaceAll(s, old, new), for a non-empty old
RECURSIVE ReplaceAll(_, _, _)
ReplaceAll(s, old, new) ==
    IF Len(s) < Len(old) THEN s
    ELSE IF SubSeq(s, 1, Len(old)) = old
    THEN new \o ReplaceAll(SubSeq(s, Len(old) + 1, Len(s)), old, new)
    ELSE <<Head(s)>> \o ReplaceAll(Tail(s), old, new)

\* strconv.Itoa(os.Getpid())
Pid == <<"4", "2">>

\* the range loop of SubstituteVariables from variable i on (counted from
\* 0), in the order of vars
RECURSIVE substituteFrom(_, _, _)
substituteFrom(result, vs, i) ==
    IF i >= Len(vs) THEN result
    ELSE LET name == vs[i + 1].Name
             value == vs[i + 1].Value
             plain == ReplaceAll(result, <<"$">> \o name, value)
         IN substituteFrom(ReplaceAll(plain, <<"$", "{">> \o name \o <<"}">>, value),
                           vs, i + 1)

SubstituteVariables(text, vs) ==
    ReplaceAll(ReplaceAll(substituteFrom(text, vs, 0), <<"$", "$">>, Pid),
               <<"$", "?">>, <<"0">>)

executeSimple(cmd, w) ==
    LET name == SubstituteVariables(cmd.Name, w.vars)
    IN IF cmd.Name = <<>> THEN Returns(0)
       ELSE IF name \in Builtins
       THEN Did(w.status[name], Event("builtin", name, "alone", <<>>))
       ELSE executeExternal(name, cmd.Redirects, w)

RECURSIVE Execute(_, _)
RECURSIVE executeListFrom(_, _, _, _)

\* the left stage task of executePipeline (lines 200-223)
leftStage(left, w) ==
    IF left = Nil THEN Panic
    ELSE IF left.Type = CommandSimple
    THEN IF findCommand(left.Name, w).err
         THEN Did(0, Event("lost", left.Name, "left", <<>>))
         ELSE Did(runStatus(left.Name, w),
                  Event("spawn", left.Name, "left", findCommand(left.Name, w).path))
    ELSE Execute(left, w)

\* the right stage task of executePipeline (lines 225-266)
rightStage(right, w) ==
    IF right = Nil THEN Panic
    ELSE IF right.Type = CommandSimple
    THEN IF right.Name \in Builtins
         THEN Did(w.status[right.Name], Event("builtin", right.Name, "right", <<>>))
         ELSE IF findCommand(right.Name, w).err
         THEN Did(127, Event("notfound", right.Name, "right", <<>>))
         ELSE Did(runStatus(right.Name, w),
                  Event("spawn", right.Name, "right", findCommand(right.Name, w).path))
    ELSE Execute(right, w)

\* a pipeline that reports the failure of its left stage
pipelineCode_Left(left, right) == IF left.code # 0 THEN left.code ELSE right.code

\* what executePipeline returns of its stages' results: rightExitCode
pipelineCode(left, right) == right.code

\* the two stage tasks of executePipeline, joined before it returns
executePipeline(pipeline, w) ==
    LET left == leftStage(pipeline.Left, w)
        right == rightStage(pipeline.Right, w)
    IN [code |-> pipelineCode(left, right),
        panic |-> left.panic \/ right.panic,
        hang |-> left.hang \/ right.hang,
        tasks |-> left.tasks + right.tasks,
        events |-> left.events \o right.events]

\* go func() { e.Execute(bg.Command) }(); return 0
executeBackground(bg, w) ==
    [code |-> 0, panic |-> FALSE, hang |-> FALSE, tasks |-> 1, events |-> <<>>]

\* element i of a list (counted from 0) was evaluated and returned code
Element(i, code) == [kind |-> "element", index |-> i, code |-> code]

\* the loop of executeList from element i on (counted from 0), with the
\* goroutines and events of the elements before
\* a loop that goes on to the next element whatever the status
executeListFrom_All(list, i, before, w) ==
    LET r == Execute(list.Commands[i + 1], w)
        element == IF r.panic \/ r.hang THEN <<>> ELSE <<Element(i, r.code)>>
        sofar == [r EXCEPT !.tasks = before.tasks + r.tasks,
                           !.events = before.events \o r.events \o element]
    IN IF r.panic \/ r.hang \/ i + 1 >= Len(list.Commands)
       THEN sofar
       ELSE executeListFrom(list, i + 1, sofar, [w EXCEPT !.fs = Effects(r.events, w.fs)])

executeListFrom(list, i, before, w) ==
    LET r == Execute(list.Commands[i + 1], w)
        element == IF r.panic \/ r.hang THEN <<>> ELSE <<Element(i, r.code)>>
        sofar == [r EXCEPT !.tasks = before.tasks + r.tasks,
                           !.events = before.events \o r.events \o element]
        stop == /\ i < Len(list.Operators)
                /\ \/ list.Operators[i + 1] = "&&" /\ r.code # 0
                   \/ list.Operators[i + 1] = "||" /\ r.code = 0
    IN IF r.panic \/ r.hang \/ stop \/ i + 1 >= Len(list.Commands)
       THEN sofar
       ELSE executeListFrom(list, i + 1, sofar, [w EXCEPT !.fs = Effects(r.events, w.fs)])

executeList(list, w) == executeListFrom(list, 0, Returns(0), w)

\* the world after what the evaluation r did to the files
After(r, w) == [w EXCEPT !.fs = Effects(r.events, w.fs)]

\* one evaluation, then another when the first returns
AndThen(first, second) ==
    IF first.panic \/ first.hang THEN first
    ELSE [code |-> second.code, panic |-> second.panic, hang |-> second.hang,
          tasks |-> first.tasks + second.tasks,
          events |-> first.events \o second.events]

executeIf(ifCmd, w) ==
    LET conditionResult == Execute(ifCmd.Condition, w)
        v == After(conditionResult, w)
    IN IF conditionResult.panic \/ conditionResult.hang THEN conditionResult
       ELSE IF conditionResult.code = 0
       THEN AndThen(conditionResult, Execute(ifCmd.Then, v))
       ELSE IF ifCmd.Else # Nil
       THEN AndThen(conditionResult, Execute(ifCmd.Else, v))
       ELSE [conditionResult EXCEPT !.code = 0]

\* e.variables.Set(name, value) was called
Assigned(name, value) == [kind |-> "set", name |-> name, value |-> value]

\* the loop of executeFor from value i on (counted from 0), with what the
\* iterations before did
RECURSIVE forFrom(_, _, _, _)
forFrom(forCmd, i, before, w) ==
    IF i >= Len(forCmd.Values) THEN before
    ELSE LET set == [Returns(0) EXCEPT
                        !.events = <<Assigned(forCmd.Variable, forCmd.Values[i + 1])>>]
             r == AndThen(AndThen(before, set), Execute(forCmd.Body, w))
         IN IF r.panic \/ r.hang THEN r
            ELSE forFrom(forCmd, i + 1, r, After(Execute(forCmd.Body, w), w))

executeFor(forCmd, w) == forFrom(forCmd, 0, Returns(0), w)

\* A world gives a command the same status each time it is run, so a
\* condition that returns 0 once returns 0 in every iteration: the loop
\* does not end, and the result holds what its first iteration did.
executeWhile(whileCmd, w) ==
    LET conditionResult == Execute(whileCmd.Condition, w)
        body == Execute(whileCmd.Body, After(conditionResult, w))
    IN IF conditionResult.panic \/ conditionResult.hang THEN conditionResult
       ELSE IF conditionResult.code # 0 THEN [conditionResult EXCEPT !.code = 0]
       ELSE [AndThen(conditionResult, body) EXCEPT !.hang = ~body.panic]

Execute(cmd, w) ==
    IF cmd = Nil THEN Returns(0)
    ELSE CASE cmd.Type = CommandSimple -> executeSimple(cmd, w)
           [] cmd.Type = CommandPipeline -> executePipeline(cmd, w)
           [] cmd.Type = CommandBackground -> executeBackground(cmd, w)
           [] cmd.Type = CommandList -> executeList(cmd, w)
           [] cmd.Type = CommandIf -> executeIf(cmd, w)
           [] cmd.Type = CommandFor -> executeFor(cmd, w)
           [] cmd.Type = CommandWhile -> executeWhile(cmd, w)
           [] OTHER -> Returns(1)

(***************************************************************************)
(* The shell: interactiveLoop and executeLine, with Parse's loop taken     *)
(* one iteration at a time.                                                *)
(*   loop: read    (in ReadLine, waiting for a line)                       *)
(*         parse   (in Parser.Parse, called by executeLine)                *)
(*         execute (in the range loop of executeLine)                      *)
(*         crashed (the process has died of a panic)                       *)
(*         stuck   (in an Execute that does not return)                    *)
(***************************************************************************)
InitShell ==
    /\ loop = "read"
    /\ line = <<>>
    /\ tokens = <<>>
    /\ pos = 0
    /\ commands = <<>>
    /\ turn = 0
    /\ exitCode = 0
    /\ bgTasks = 0

\* strings.TrimSpace
RECURSIVE TrimSpace(_)
TrimSpace(s) ==
    IF s = <<>> THEN s
    ELSE IF IsSpace(Head(s)) THEN TrimSpace(Tail(s))
    ELSE IF IsSpace(s[Len(s)]) THEN TrimSpace(SubSeq(s, 1, Len(s) - 1))
    ELSE s

\* a Parse that keeps the position the call before left
ReadLine_KeepPos(input) ==
    /\ loop = "read"
    /\ TrimSpace(input) # <<>>
    /\ line' = TrimSpace(input)
    /\ tokens' = Tokenize(TrimSpace(input))
    /\ commands' = <<>>
    /\ turn' = 0
    /\ loop' = "parse"
    /\ UNCHANGED <<pos, exitCode, bgTasks>>
    /\ UNCHANGED <<jobVars, storeVars, execVars, pipeVars>>

\* interactiveLoop reads a line, drops an empty one, and calls executeLine,
\* which calls Parse: the first three statements of Parse
ReadLine(input) ==
    /\ loop = "read"
    /\ TrimSpace(input) # <<>>
    /\ line' = TrimSpace(input)
    /\ tokens' = Tokenize(TrimSpace(input))
    /\ pos' = 0
    /\ commands' = <<>>
    /\ turn' = 0
    /\ loop' = "parse"
    /\ UNCHANGED <<exitCode, bgTasks>>
    /\ UNCHANGED <<jobVars, storeVars, execVars, pipeVars>>

\* Parse's loop condition and its break
ParseLoops == pos < Len(tokens) /\ current(tokens, pos).Type # TokenEOF

\* an executeLine that runs the commands parsed before the error
ParseIter_Partial ==
    /\ loop = "parse"
    /\ ParseLoops
    /\ IF current(tokens, pos).Type = TokenNewline
       THEN /\ pos' = advance(tokens, pos)
            /\ UNCHANGED <<commands, loop, exitCode>>
       ELSE LET r == parseCommand(tokens, pos)
            IN IF r.hang
               THEN UNCHANGED <<pos, commands, loop, exitCode>>
               ELSE IF r.err
               THEN /\ pos' = r.pos
                    /\ exitCode' = 2
                    /\ loop' = "execute"
                    /\ UNCHANGED commands
               ELSE /\ commands' = IF r.cmd # Nil THEN Append(commands, r.cmd)
                                   ELSE commands
                    /\ pos' = IF /\ r.pos < Len(tokens)
                                 /\ current(tokens, r.pos).Type
                                        \in {TokenSemicolon, TokenNewline}
                              THEN advance(tokens, r.pos)
                              ELSE r.pos
                    /\ UNCHANGED <<loop, exitCode>>
    /\ turn' = 1 - turn
    /\ UNCHANGED <<line, tokens, bgTasks>>
    /\ UNCHANGED <<jobVars, storeVars, execVars, pipeVars>>

\* one iteration of the loop of Parse; on an error Parse returns it and
\* executeLine sets the exit code 2 and returns to the read loop
ParseIter ==
    /\ loop = "parse"
    /\ ParseLoops
    /\ IF current(tokens, pos).Type = TokenNewline
       THEN /\ pos' = advance(tokens, pos)
            /\ UNCHANGED <<commands, loop, exitCode>>
       ELSE LET r == parseCommand(tokens, pos)
            IN IF r.hang
               THEN UNCHANGED <<pos, commands, loop, exitCode>>
               ELSE IF r.err
               THEN /\ pos' = r.pos
                    /\ commands' = <<>>
                    /\ exitCode' = 2
                    /\ loop' = "read"
               ELSE /\ commands' = IF r.cmd # Nil THEN Append(commands, r.cmd)
                                   ELSE commands
                    /\ pos' = IF /\ r.pos < Len(tokens)
                                 /\ current(tokens, r.pos).Type
                                        \in {TokenSemicolon, TokenNewline}
                              THEN advance(tokens, r.pos)
                              ELSE r.pos
                    /\ UNCHANGED <<loop, exitCode>>
    /\ turn' = 1 - turn
    /\ UNCHANGED <<line, tokens, bgTasks>>
    /\ UNCHANGED <<jobVars, storeVars, execVars, pipeVars>>

\* Parse returns the commands
ParseReturn ==
    /\ loop = "parse"
    /\ ~ParseLoops
    /\ loop' = "execute"
    /\ UNCHANGED <<line, tokens, pos, commands, turn, exitCode, bgTasks>>
    /\ UNCHANGED <<jobVars, storeVars, execVars, pipeVars>>

\* a world in which every command name is found, in the one directory of PATH
ShellWorld(out) ==
    [status |-> out, PATH |-> <<"/bin">>,
     files |-> {PathJoin(<<"/bin">>, name) : name \in CmdNames}, fs |-> NoFiles, denied |-> {}, signal |-> NoSignal, vars |-> <<>>]

\* one iteration of the range loop of executeLine
ExecuteNext ==
    /\ loop = "execute"
    /\ commands # <<>>
    /\ \E out \in [CmdNames -> Statuses] :
          LET r == Execute(Head(commands), ShellWorld(out))
          IN /\ exitCode' = IF r.panic THEN exitCode ELSE r.code
             /\ loop' = IF r.panic THEN "crashed" ELSE IF r.hang THEN "stuck" ELSE loop
             /\ bgTasks' = bgTasks + r.tasks
    /\ commands' = Tail(commands)
    /\ UNCHANGED <<line, tokens, pos, turn>>
    /\ UNCHANGED <<jobVars, storeVars, execVars, pipeVars>>

\* executeLine returns to interactiveLoop
ExecuteReturn ==
    /\ loop = "execute"
    /\ commands = <<>>
    /\ loop' = "read"
    /\ UNCHANGED <<line, tokens, pos, commands, turn, exitCode, bgTasks>>
    /\ UNCHANGED <<jobVars, storeVars, execVars, pipeVars>>

NextShell ==
    \/ \E input \in Lines : ReadLine(input)
    \/ ParseIter
    \/ ParseReturn
    \/ ExecuteNext
    \/ ExecuteReturn

(***************************************************************************)
(* One evaluation by the Executor of one command the Parser built: a line  *)
(* is made of at most MaxPieces pieces, its words being the command names  *)
(* a, b, c, of which b is a builtin.                                       *)
(***************************************************************************)
MaxPieces == 5

ExecNames == {<<"a">>, <<"b">>, <<"c">>}
ExecOperators == {<<"|">>, <<"&", "&">>, <<"|", "|">>}

RECURSIVE Flatten(_)
Flatten(pieces) ==
    IF pieces = <<>> THEN <<>> ELSE Head(pieces) \o Flatten(Tail(pieces))

\* the lines in which no two words are adjacent
ExecLines ==
    {Flatten(pieces) :
        pieces \in {ps \in UNION {[1..n -> ExecNames \cup ExecOperators] : n \in 1..MaxPieces} :
                       \A i \in 1..(Len(ps) - 1) :
                           ~(ps[i] \in ExecNames /\ ps[i + 1] \in ExecNames)}}

\* /bin is the one directory of PATH; c is always there
ExecWorlds ==
    {[status |-> status, PATH |-> <<"/bin">>,
      files |-> files \cup {PathJoin(<<"/bin">>, <<"c">>)}, fs |-> NoFiles, denied |-> {}, signal |-> NoSignal, vars |-> <<>>] :
        status \in [ExecNames -> Statuses],
        files \in SUBSET {PathJoin(<<"/bin">>, name) : name \in {<<"a">>, <<"b">>}}}

InitExec == run = [pc |-> "idle"]

\* parseCommand on the tokens of a line, then Execute on the command
Evaluate ==
    /\ run.pc = "idle"
    /\ \E input \in ExecLines, w \in ExecWorlds :
          LET r == parseCommand(Tokenize(input), 0)
          IN run' = [pc |-> "done", input |-> input, err |-> r.err, cmd |-> r.cmd,
                     world |-> w,
                     result |-> IF r.err THEN Returns(2) ELSE Execute(r.cmd, w)]
    /\ UNCHANGED <<jobVars, storeVars, shellVars, pipeVars>>

NextExec == Evaluate

(***************************************************************************)
(* One external command run under any PATH: the value of PATH is made of   *)
(* at most MaxPath atoms, the directory names p and q and the separator.   *)
(***************************************************************************)
MaxPath == 3

PathAtoms == {"p", "q", ":"}
Paths == UNION {[1..n -> PathAtoms] : n \in 0..MaxPath}

\* the names looked up: one without and one with a path separator
PathNames == {<<"a">>, <<"p", "/", "a">>}

\* where a file named a may be: the working directory, p, q and the
\* directories of DefaultPath
PathFiles ==
    {PathJoin(dir, <<"a">>) :
        dir \in {<<>>, <<"p">>, <<"q">>, <<"/usr/local/bin">>, <<"/usr/bin">>, <<"/bin">>}}

PathWorlds ==
    {[status |-> status, PATH |-> path, files |-> files, fs |-> NoFiles, denied |-> {}, signal |-> NoSignal, vars |-> <<>>] :
        status \in [PathNames -> {0}], path \in Paths, files \in SUBSET PathFiles}

\* Execute on a simple command without arguments or redirects
Resolve ==
    /\ run.pc = "idle"
    /\ \E name \in PathNames, w \in PathWorlds :
          LET cmd == [Type |-> CommandSimple, Name |-> name, Args |-> <<>>,
                      Redirects |-> <<>>]
          IN run' = [pc |-> "done", input |-> name, err |-> FALSE, cmd |-> cmd,
                     world |-> w, result |-> Execute(cmd, w)]
    /\ UNCHANGED <<jobVars, storeVars, shellVars, pipeVars>>

NextPath == Resolve

(***************************************************************************)
(* executeFor, one iteration a step.  The For command has the loop         *)
(* variable X, at most MaxForValues values and a simple command or no      *)
(* command as its body; the body is the external command a, which writes   *)
(* no variable.  Before the loop the Variable Store is brought into any    *)
(* state its operations lead to.                                           *)
(* run is [pc, cmd, world, i, bodies, bound, before, result]:              *)
(*   i       the number of values the range loop has taken                 *)
(*   bodies  history: the number of evaluations of the body                *)
(*   bound   history: what the Store held for the loop variable at each    *)
(*           evaluation of the body                                        *)
(*   before  history: the Store and the environment when the loop began    *)
(***************************************************************************)
MaxForValues == 2

ForValues == {"v", "w"}
ForBodies ==
    {Nil, [Type |-> CommandSimple, Name |-> <<"a">>, Args |-> <<>>,
           Redirects |-> <<>>]}
ForCommands ==
    {[Type |-> CommandFor, Variable |-> "X", Values |-> values, Body |-> body] :
        values \in UNION {[1..n -> ForValues] : n \in 0..MaxForValues},
        body \in ForBodies}
ForWorlds ==
    {[status |-> status, PATH |-> <<"/bin">>,
      files |-> {PathJoin(<<"/bin">>, <<"a">>)}, fs |-> NoFiles, denied |-> {}, signal |-> NoSignal, vars |-> <<>>] :
        status \in [{<<"a">>} -> Statuses]}

\* the callers of the Store before the loop
Prepare ==
    /\ run.pc = "idle"
    /\ NextVars

\* Execute is called on a For command: var exitCode int
ForStart ==
    /\ run.pc = "idle"
    /\ \E cmd \in ForCommands, w \in ForWorlds :
          run' = [pc |-> "for", cmd |-> cmd, world |-> w, i |-> 0, bodies |-> 0,
                  bound |-> <<>>, before |-> <<store, env>>,
                  result |-> Returns(0)]
    /\ UNCHANGED <<jobVars, storeVars, shellVars, pipeVars>>

\* one iteration of the range loop: Set, whose error is dropped, then the body
ForIter ==
    /\ run.pc = "for"
    /\ run.i < Len(run.cmd.Values)
    /\ SetWrites(run.cmd.Variable, run.cmd.Values[run.i + 1])
    /\ run' = [run EXCEPT
                 !.i = run.i + 1,
                 !.bodies = run.bodies + 1,
                 !.bound = Append(run.bound,
                                  IF run.cmd.Variable \in DOMAIN store'
                                  THEN <<store'[run.cmd.Variable].Value>>
                                  ELSE <<>>),
                 !.result = Execute(run.cmd.Body, run.world)]
    /\ UNCHANGED <<jobVars, shellVars, pipeVars>>

\* return exitCode
ForReturn ==
    /\ run.pc = "for"
    /\ run.i = Len(run.cmd.Values)
    /\ run' = [run EXCEPT !.pc = "done"]
    /\ UNCHANGED <<jobVars, storeVars, shellVars, pipeVars>>

NextFor == Prepare \/ ForStart \/ ForIter \/ ForReturn

(***************************************************************************)
(* executePipeline, statement by statement, with its two goroutines and    *)
(* the external processes they start.  A pipeline of n stages is the       *)
(* left-nested tree parsePipeline builds: call k of executePipeline        *)
(* (k = 1 the innermost) has stage k + 1 as its right stage and, as its    *)
(* left stage, stage 1 when k = 1 and the pipeline of call k - 1 else.     *)
(* A stage is a registered builtin (with no file of its name), an external *)
(* command that is found, or a name that is not found.                     *)
(*   inv[k].pc     off, recv (at the receives of lines 268-269), returned  *)
(*   inv[k].chan   the number of values in the channel done                *)
(*   inv[k].left   where the left goroutine is: off, start, run (in        *)
(*                 execCmd.Run), calling (in e.Execute), ran, sent (past   *)
(*                 done <- true), end (past the deferred Close)            *)
(*   inv[k].right  where the right goroutine is: off, start, saved, set,   *)
(*                 called, run, ran, sent, end                             *)
(*   inv[k].old    the right goroutine's oldStdin                          *)
(* An external process writes one datum, the number of its stage, to its   *)
(* standard output, reads its standard input to the end when that is a     *)
(* pipe, and exits.                                                        *)
(***************************************************************************)
MaxStages == 3

StageKinds == {"builtin", "external", "missing"}
StageLists == UNION {[1..n -> StageKinds] : n \in 2..MaxStages}
Calls == 1..(MaxStages - 1)

\* the files a process or os.Stdin may hold
Tty == [end |-> "tty", k |-> 0]
Reader(k) == [end |-> "r", k |-> k]
Writer(k) == [end |-> "w", k |-> k]

Off == [pc |-> "off", chan |-> 0, received |-> 0, code |-> 0,
        left |-> "off", right |-> "off", old |-> Tty]
\* lines 189-266: the pipe and the channel are made, the goroutines started
Called == [pc |-> "recv", chan |-> 0, received |-> 0, code |-> 0,
           left |-> "start", right |-> "start", old |-> Tty]
NoPipe == [buf |-> <<>>, w |-> FALSE, r |-> FALSE]
OpenPipe == [buf |-> <<>>, w |-> TRUE, r |-> TRUE]
NoProc == [st |-> "none", stdin |-> Tty, stdout |-> Tty, got |-> <<>>, wrote |-> <<>>]
Started(stdin, stdout) ==
    [st |-> "running", stdin |-> stdin, stdout |-> stdout, got |-> <<>>, wrote |-> <<>>]

InitPipe ==
    /\ osStdin = Tty
    /\ stages = <<>>
    /\ inv = <<>>
    /\ pipes = <<>>
    /\ procs = <<>>

PipeFrame == UNCHANGED <<jobVars, storeVars, shellVars, execVars>>

\* Execute is called on a pipeline: the outermost call of executePipeline
PipeStart ==
    /\ stages = <<>>
    /\ \E ss \in StageLists :
          /\ stages' = ss
          /\ inv' = [k \in 1..(Len(ss) - 1) |-> IF k = Len(ss) - 1 THEN Called ELSE Off]
          /\ pipes' = [k \in 1..(Len(ss) - 1) |->
                          IF k = Len(ss) - 1 THEN OpenPipe ELSE NoPipe]
          /\ procs' = [i \in 1..Len(ss) |-> NoProc]
    /\ UNCHANGED osStdin
    /\ PipeFrame

\* the left goroutine, left stage simple and found: lines 206-214 up to Run
LeftSpawn(k) ==
    /\ k \in DOMAIN inv /\ k = 1
    /\ inv[k].left = "start"
    /\ stages[1] = "external"
    /\ procs' = [procs EXCEPT ![1] = Started(osStdin, Writer(k))]
    /\ inv' = [inv EXCEPT ![k].left = "run"]
    /\ UNCHANGED <<osStdin, stages, pipes>>
    /\ PipeFrame

\* the left goroutine, left stage simple and findCommand fails: lines 215-217
LeftLost(k) ==
    /\ k \in DOMAIN inv /\ k = 1
    /\ inv[k].left = "start"
    /\ stages[1] # "external"
    /\ inv' = [inv EXCEPT ![k].left = "ran"]
    /\ UNCHANGED <<osStdin, stages, pipes, procs>>
    /\ PipeFrame

\* the left goroutine, left stage a pipeline: e.Execute(pipeline.Left)
LeftCall(k) ==
    /\ k \in DOMAIN inv /\ k > 1
    /\ inv[k].left = "start"
    /\ inv' = [inv EXCEPT ![k].left = "calling", ![k - 1] = Called]
    /\ pipes' = [pipes EXCEPT ![k - 1] = OpenPipe]
    /\ UNCHANGED <<osStdin, stages, procs>>
    /\ PipeFrame

\* execCmd.Run() returns in the left goroutine
LeftWait(k) ==
    /\ k \in DOMAIN inv
    /\ inv[k].left = "run"
    /\ procs[1].st = "exited"
    /\ inv' = [inv EXCEPT ![k].left = "ran"]
    /\ UNCHANGED <<osStdin, stages, pipes, procs>>
    /\ PipeFrame

\* done <- true in the left goroutine
LeftDone(k) ==
    /\ k \in DOMAIN inv
    /\ inv[k].left = "ran"
    /\ inv' = [inv EXCEPT ![k].left = "sent", ![k].chan = @ + 1]
    /\ UNCHANGED <<osStdin, stages, pipes, procs>>
    /\ PipeFrame

\* defer leftWriter.Close() of the left goroutine
LeftClose(k) ==
    /\ k \in DOMAIN inv
    /\ inv[k].left = "sent"
    /\ inv' = [inv EXCEPT ![k].left = "end"]
    /\ pipes' = [pipes EXCEPT ![k].w = FALSE]
    /\ UNCHANGED <<osStdin, stages, procs>>
    /\ PipeFrame

\* the right goroutine, right stage a builtin: oldStdin := os.Stdin
RightSave(k) ==
    /\ k \in DOMAIN inv
    /\ inv[k].right = "start"
    /\ stages[k + 1] = "builtin"
    /\ inv' = [inv EXCEPT ![k].right = "saved", ![k].old = osStdin]
    /\ UNCHANGED <<osStdin, stages, pipes, procs>>
    /\ PipeFrame

\* os.Stdin = leftReader
RightSet(k) ==
    /\ k \in DOMAIN inv
    /\ inv[k].right = "saved"
    /\ osStdin' = Reader(k)
    /\ inv' = [inv EXCEPT ![k].right = "set"]
    /\ UNCHANGED <<stages, pipes, procs>>
    /\ PipeFrame

\* rightExitCode = builtin(cmd.Args)
RightBuiltin(k) ==
    /\ k \in DOMAIN inv
    /\ inv[k].right = "set"
    /\ inv' = [inv EXCEPT ![k].right = "called", ![k].code = 0]
    /\ UNCHANGED <<osStdin, stages, pipes, procs>>
    /\ PipeFrame

\* os.Stdin = oldStdin
RightRestore(k) ==
    /\ k \in DOMAIN inv
    /\ inv[k].right = "called"
    /\ osStdin' = inv[k].old
    /\ inv' = [inv EXCEPT ![k].right = "ran"]
    /\ UNCHANGED <<stages, pipes, procs>>
    /\ PipeFrame

\* the right goroutine, right stage found: lines 237-245 up to Run
RightSpawn(k) ==
    /\ k \in DOMAIN inv
    /\ inv[k].right = "start"
    /\ stages[k + 1] = "external"
    /\ procs' = [procs EXCEPT ![k + 1] = Started(Reader(k), Tty)]
    /\ inv' = [inv EXCEPT ![k].right = "run"]
    /\ UNCHANGED <<osStdin, stages, pipes>>
    /\ PipeFrame

\* the right goroutine, findCommand fails: rightExitCode = 127
RightMissing(k) ==
    /\ k \in DOMAIN inv
    /\ inv[k].right = "start"
    /\ stages[k + 1] = "missing"
    /\ inv' = [inv EXCEPT ![k].right = "ran", ![k].code = 127]
    /\ UNCHANGED <<osStdin, stages, pipes, procs>>
    /\ PipeFrame

\* execCmd.Run() returns in the right goroutine
RightWait(k) ==
    /\ k \in DOMAIN inv
    /\ inv[k].right = "run"
    /\ procs[k + 1].st = "exited"
    /\ inv' = [inv EXCEPT ![k].right = "ran", ![k].code = 0]
    /\ UNCHANGED <<osStdin, stages, pipes, procs>>
    /\ PipeFrame

\* done <- true in the right goroutine
RightDone(k) ==
    /\ k \in DOMAIN inv
    /\ inv[k].right = "ran"
    /\ inv' = [inv EXCEPT ![k].right = "sent", ![k].chan = @ + 1]
    /\ UNCHANGED <<osStdin, stages, pipes, procs>>
    /\ PipeFrame

\* defer leftReader.Close() of the right goroutine
RightClose(k) ==
    /\ k \in DOMAIN inv
    /\ inv[k].right = "sent"
    /\ inv' = [inv EXCEPT ![k].right = "end"]
    /\ pipes' = [pipes EXCEPT ![k].r = FALSE]
    /\ UNCHANGED <<osStdin, stages, procs>>
    /\ PipeFrame

\* the number of values executePipeline takes from done before it returns
Receives == 2

\* <-done, once of the two times
PipeReceive(k) ==
    /\ k \in DOMAIN inv
    /\ inv[k].pc = "recv"
    /\ inv[k].received < Receives
    /\ inv[k].chan > 0
    /\ inv' = [inv EXCEPT ![k].chan = @ - 1, ![k].received = @ + 1]
    /\ UNCHANGED <<osStdin, stages, pipes, procs>>
    /\ PipeFrame

\* a return that is content with the first task to finish
PipeReturn_First(k) ==
    /\ k \in DOMAIN inv
    /\ inv[k].pc = "recv"
    /\ inv[k].received >= Receives - 1
    /\ inv' = [j \in DOMAIN inv |->
                 IF j = k THEN [inv[j] EXCEPT !.pc = "returned"]
                 ELSE IF j = k + 1 THEN [inv[j] EXCEPT !.left = "ran"]
                 ELSE inv[j]]
    /\ pipes' = [pipes EXCEPT ![k].w = FALSE, ![k].r = FALSE]
    /\ UNCHANGED <<osStdin, stages, procs>>
    /\ PipeFrame

\* return rightExitCode, with the deferred Close of both ends of the pipe;
\* the left goroutine of the calling pipeline goes on
PipeReturn(k) ==
    /\ k \in DOMAIN inv
    /\ inv[k].pc = "recv"
    /\ inv[k].received >= Receives
    /\ inv' = [j \in DOMAIN inv |->
                 IF j = k THEN [inv[j] EXCEPT !.pc = "returned"]
                 ELSE IF j = k + 1 THEN [inv[j] EXCEPT !.left = "ran"]
                 ELSE inv[j]]
    /\ pipes' = [pipes EXCEPT ![k].w = FALSE, ![k].r = FALSE]
    /\ UNCHANGED <<osStdin, stages, procs>>
    /\ PipeFrame

\* a process writes to its standard output
StageWrite(i) ==
    /\ i \in DOMAIN procs
    /\ procs[i].st = "running"
    /\ procs[i].wrote = <<>>
    /\ procs' = [procs EXCEPT ![i].wrote = <<i>>]
    /\ pipes' = IF procs[i].stdout.end = "w"
                THEN [pipes EXCEPT ![procs[i].stdout.k].buf = Append(@, i)]
                ELSE pipes
    /\ UNCHANGED <<osStdin, stages, inv>>
    /\ PipeFrame

\* a process reads what is in the pipe that is its standard input
StageRead(i) ==
    /\ i \in DOMAIN procs
    /\ procs[i].st = "running"
    /\ procs[i].wrote # <<>>
    /\ procs[i].stdin.end = "r"
    /\ pipes[procs[i].stdin.k].buf # <<>>
    /\ procs' = [procs EXCEPT ![i].got = @ \o pipes[procs[i].stdin.k].buf]
    /\ pipes' = [pipes EXCEPT ![procs[i].stdin.k].buf = <<>>]
    /\ UNCHANGED <<osStdin, stages, inv>>
    /\ PipeFrame

\* a read of pipe k returns end of file: nothing is in it and nobody holds
\* its write end
AtEnd(k) ==
    /\ pipes[k].buf = <<>>
    /\ ~pipes[k].w
    /\ \A i \in DOMAIN procs :
          ~(procs[i].st = "running" /\ procs[i].stdout = Writer(k))

\* a process exits: it has written, and read its input to the end
StageExit(i) ==
    /\ i \in DOMAIN procs
    /\ procs[i].st = "running"
    /\ procs[i].wrote # <<>>
    /\ procs[i].stdin.end = "r" => AtEnd(procs[i].stdin.k)
    /\ procs' = [procs EXCEPT ![i].st = "exited"]
    /\ UNCHANGED <<osStdin, stages, inv, pipes>>
    /\ PipeFrame

\* the main goroutine of call k
PipeJoins(k) == PipeReceive(k) \/ PipeReturn(k)

NextPipe ==
    \/ PipeStart
    \/ \E k \in Calls :
          \/ LeftSpawn(k) \/ LeftLost(k) \/ LeftCall(k) \/ LeftWait(k)
          \/ LeftDone(k) \/ LeftClose(k)
          \/ RightSave(k) \/ RightSet(k) \/ RightBuiltin(k) \/ RightRestore(k)
          \/ RightSpawn(k) \/ RightMissing(k) \/ RightWait(k)
          \/ RightDone(k) \/ RightClose(k)
          \/ PipeReceive(k) \/ PipeReturn(k)
    \/ \E i \in 1..MaxStages : StageWrite(i) \/ StageRead(i) \/ StageExit(i)

(***************************************************************************)
(* One external command with redirects: the line is the command a          *)
(* followed by at most MaxRedirects redirects to the files f and g, each   *)
(* of which may be missing, empty or hold the datum x.                     *)
(***************************************************************************)
MaxRedirects == 2

RedirectOperators == {<<">">>, <<">", ">">>, <<"<">>}
Targets == {<<"f">>, <<"g">>}
RedirectWords == {op \o target : op \in RedirectOperators, target \in Targets}
RedirectLines ==
    {<<"a">> \o Flatten(rs) :
        rs \in UNION {[1..n -> RedirectWords] : n \in 0..MaxRedirects}}

Contents == {<<>>, <<"x">>}
FileSystems == UNION {[S -> Contents] : S \in SUBSET Targets}

RedirectWorlds ==
    {[status |-> status, PATH |-> <<"/bin">>,
      files |-> {PathJoin(<<"/bin">>, <<"a">>)}, fs |-> fs, denied |-> denied,
      signal |-> signal, vars |-> <<>>] :
        status \in [{<<"a">>} -> Statuses], fs \in FileSystems,
        denied \in SUBSET Targets, signal \in [{<<"a">>} -> {0} \cup Signals]}

\* parseCommand on the tokens of a line, then Execute on the command
Redirected ==
    /\ run.pc = "idle"
    /\ \E input \in RedirectLines, w \in RedirectWorlds :
          LET r == parseCommand(Tokenize(input), 0)
          IN run' = [pc |-> "done", input |-> input, err |-> r.err, cmd |-> r.cmd,
                     world |-> w,
                     result |-> IF r.err THEN Returns(2) ELSE Execute(r.cmd, w)]
    /\ UNCHANGED <<jobVars, storeVars, shellVars, pipeVars>>

NextRedirect == Redirected

(***************************************************************************)
(* One command with an output redirect to f on each dispatch path: alone,  *)
(* as the left stage and as the right stage of a pipeline with c.  The     *)
(* command is the program a or the builtin b.                              *)
(***************************************************************************)
DispatchPlaces == {"alone", "left", "right"}

DispatchLine(who, op, place) ==
    LET redirected == who \o op \o <<"f">>
    IN CASE place = "alone" -> redirected
         [] place = "left" -> redirected \o <<"|", "c">>
         [] place = "right" -> <<"c", "|">> \o redirected

DispatchWorlds ==
    {[status |-> status, PATH |-> <<"/bin">>,
      files |-> {PathJoin(<<"/bin">>, <<"a">>), PathJoin(<<"/bin">>, <<"c">>)},
      fs |-> fs, denied |-> denied, signal |-> NoSignal, vars |-> <<>>] :
        status \in [ExecNames -> Statuses],
        fs \in UNION {[S -> Contents] : S \in SUBSET {<<"f">>}},
        denied \in SUBSET {<<"f">>}}

\* parseCommand on the tokens of a line, then Execute on the command
Dispatched ==
    /\ run.pc = "idle"
    /\ \E who \in {<<"a">>, <<"b">>}, op \in {<<">">>, <<">", ">">>},
          place \in DispatchPlaces, w \in DispatchWorlds :
          LET input == DispatchLine(who, op, place)
          IN run' = [pc |-> "done", input |-> input, who |-> who, place |-> place,
                     world |-> w,
                     result |-> Execute(parseCommand(Tokenize(input), 0).cmd, w)]
    /\ UNCHANGED <<jobVars, storeVars, shellVars, pipeVars>>

NextDispatch == Dispatched

(***************************************************************************)
(* Parse on lines with control keywords: a span of at most MaxSpan pieces  *)
(* stands alone, or as the condition, a branch or the body of an if, a     *)
(* while or a for.  Pieces are separated by one space.                     *)
(***************************************************************************)
MaxSpan == 3

SpanPieces == {<<"a">>, <<";">>, <<">">>, <<"&">>, <<"|">>}
Spans == UNION {[1..n -> SpanPieces] : n \in 0..MaxSpan}

\* the pieces with a space between each two
RECURSIVE Spaced(_)
Spaced(pieces) ==
    IF pieces = <<>> THEN <<>>
    ELSE IF Len(pieces) = 1 THEN pieces[1]
    ELSE pieces[1] \o <<" ">> \o Spaced(Tail(pieces))

\* the lines built around the span
Around(span) ==
    LET one == <<<<"a">>, <<";">>>>
    IN {span,
        <<If>> \o one \o <<Then>> \o span \o <<Fi>>,
        <<If>> \o one \o <<Then>> \o one \o <<Else>> \o span \o <<Fi>>,
        <<If>> \o span \o <<Then>> \o one \o <<Fi>>,
        <<While>> \o one \o <<Do>> \o span \o <<Done>>,
        <<While>> \o span \o <<Do>> \o one \o <<Done>>,
        <<For>> \o <<<<"x">>, In, <<"a">>, <<";">>, Do>> \o span \o <<Done>>,
        <<For>> \o <<<<"x">>, In>> \o span \o <<Do>> \o one \o <<Done>>}

ParseLines == {Spaced(pieces) : pieces \in UNION {Around(span) : span \in Spans}}

\* Parse is called on a line
ParseLine ==
    /\ run.pc = "idle"
    /\ \E input \in ParseLines :
          run' = [pc |-> "done", input |-> input, parse |-> Parse(input)]
    /\ UNCHANGED <<jobVars, storeVars, shellVars, pipeVars>>

NextParse == ParseLine

(***************************************************************************)
(* Tokenize on any line of at most MaxLex characters, among them a quote,  *)
(* a space, a metacharacter and the comment sign.                          *)
(***************************************************************************)
MaxLex == 5

LexChars == {"a", "\"", " ", "|", "#"}
LexLines == UNION {[1..n -> LexChars] : n \in 0..MaxLex}

\* Tokenize is called on a line
Lex ==
    /\ run.pc = "idle"
    /\ \E input \in LexLines :
          run' = [pc |-> "done", input |-> input, tokens |-> Tokenize(input)]
    /\ UNCHANGED <<jobVars, storeVars, shellVars, pipeVars>>

NextLex == Lex

(***************************************************************************)
(* parseIf on `if a ; then BODY ; fi`, the body being at most MaxBody      *)
(* pieces with a space between each two: the word a, a semicolon, and      *)
(* quoted words that hold a space, a metacharacter and a keyword.          *)
(***************************************************************************)
MaxBody == 3

Quoted(text) == <<"\"">> \o text \o <<"\"">>
BodyPieces == {<<"a">>, <<";">>, Quoted(<<"a", " ", "b">>), Quoted(<<"|">>), Quoted(Fi)}
Bodies == UNION {[1..n -> BodyPieces] : n \in 0..MaxBody}

\* the tokens parseIf collects for the then-branch of the if that starts
\* the tokens
ThenSpan(toks) ==
    LET condEnd == scanUntil(toks, advance(toks, 0), {Then})
        thenStart == advance(toks, condEnd)
    IN Span(toks, thenStart, scanUntil(toks, thenStart, {Else, Fi}))

\* Parse is called on the line; span is the then-span of parseIf and again
\* what the parser of the branch lexes of the joined span
ParseBody ==
    /\ run.pc = "idle"
    /\ \E body \in Bodies :
          LET input == Spaced(<<If, <<"a">>, <<";">>, Then>> \o body \o <<<<";">>, Fi>>)
              span == ThenSpan(Tokenize(input))
          IN run' = [pc |-> "done", input |-> input,
                     body |-> Spaced(body \o <<<<";">>>>),
                     span |-> span, again |-> Tokenize(JoinTokens(span)),
                     parse |-> Parse(input)]
    /\ UNCHANGED <<jobVars, storeVars, shellVars, pipeVars>>

NextBody == ParseBody

(***************************************************************************)
(* executeLine on an if with at most MaxElifs elif clauses and perhaps an  *)
(* else, or on an if, a while or a for whose body holds two commands: the  *)
(* conditions are p and q, the bodies a, r and s, and each of them is a    *)
(* program of /bin or is missing.                                          *)
(***************************************************************************)
MaxElifs == 2

IfNames == {<<"p">>, <<"a">>, <<"q">>, <<"r">>, <<"s">>}

RECURSIVE ElifClauses(_)
ElifClauses(n) ==
    IF n = 0 THEN <<>>
    ELSE <<Elif, <<"q">>, <<";">>, Then, <<"r">>, <<";">>>> \o ElifClauses(n - 1)

IfPieces(n, withElse) ==
    <<If, <<"p">>, <<";">>, Then, <<"a">>, <<";">>>> \o ElifClauses(n)
        \o (IF withElse THEN <<Else, <<"s">>, <<";">>>> ELSE <<>>) \o <<Fi>>

IfLines == {Spaced(IfPieces(n, withElse)) : n \in 0..MaxElifs, withElse \in BOOLEAN}

\* the lines whose then-branch, else-branch or loop body holds a ; r
TwoCommands == <<<<"a">>, <<";">>, <<"r">>, <<";">>>>
ThenBody == Spaced(<<If, <<"p">>, <<";">>, Then>> \o TwoCommands \o <<Fi>>)
ElseBody ==
    Spaced(<<If, <<"p">>, <<";">>, Then, <<"s">>, <<";">>, Else>> \o TwoCommands \o <<Fi>>)
WhileBody == Spaced(<<While, <<"p">>, <<";">>, Do>> \o TwoCommands \o <<Done>>)
ForBody == Spaced(<<For, <<"x">>, In, <<"v">>, <<";">>, Do>> \o TwoCommands \o <<Done>>)
BodyLines == {ThenBody, ElseBody, WhileBody, ForBody}

IfWorlds ==
    {[status |-> status, PATH |-> <<"/bin">>, files |-> files,
      fs |-> NoFiles, denied |-> {}, signal |-> NoSignal, vars |-> <<>>] :
        status \in [IfNames -> Statuses],
        files \in SUBSET {PathJoin(<<"/bin">>, name) : name \in IfNames}}

\* the range loop of executeLine from command i on (counted from 0)
RECURSIVE executeLineFrom(_, _, _, _)
executeLineFrom(cmds, i, before, w) ==
    IF i >= Len(cmds) THEN before
    ELSE LET r == Execute(cmds[i + 1], w)
             sofar == [r EXCEPT !.tasks = before.tasks + r.tasks,
                                !.events = before.events \o r.events]
         IN IF r.panic \/ r.hang THEN sofar
            ELSE executeLineFrom(cmds, i + 1, sofar, After(r, w))

\* executeLine: the exit code 2 for a line Parse refuses, and else the
\* commands of the line one after the other
executeParsed(r, w) ==
    IF r.hang THEN [Returns(0) EXCEPT !.hang = TRUE]
    ELSE IF r.err THEN Returns(2)
    ELSE executeLineFrom(r.cmds, 0, Returns(0), w)

executeLine(input, w) == executeParsed(Parse(input), w)

\* executeLine is called on a line
RunLine ==
    /\ run.pc = "idle"
    /\ \E input \in IfLines \cup BodyLines, w \in IfWorlds :
          run' = [pc |-> "done", input |-> input, world |-> w,
                  result |-> executeLine(input, w)]
    /\ UNCHANGED <<jobVars, storeVars, shellVars, pipeVars>>

NextIf == RunLine

(***************************************************************************)
(* One simple command whose name is a text of at most MaxText characters   *)
(* with references to variables, evaluated over a store of at most two     *)
(* variables, in either order of the map.                                  *)
(***************************************************************************)
MaxText == 4

TextChars == {"$", "{", "}", "X", "Y"}
Texts == UNION {[1..n -> TextChars] : n \in 1..MaxText}

SubstNames == {<<"X">>, <<"X", "Y">>}
SubstValues == {<<>>, <<"v">>, <<"$", "X">>}

\* the variables of the store, in every order a range may yield them
SubstVars ==
    {vs \in UNION {[1..n -> [Name : SubstNames, Value : SubstValues]] : n \in 0..2} :
        \A i, j \in DOMAIN vs : i # j => vs[i].Name # vs[j].Name}

\* executeSimple on a command whose name is text: the name is substituted
\* and looked up; only v is a program, in /bin
Substitute ==
    /\ run.pc = "idle"
    /\ \E text \in Texts, vs \in SubstVars :
          LET name == SubstituteVariables(text, vs)
              w == [status |-> [n \in {name} |-> 0], PATH |-> <<"/bin">>,
                    files |-> {PathJoin(<<"/bin">>, <<"v">>)}, fs |-> NoFiles,
                    denied |-> {}, signal |-> NoSignal, vars |-> vs]
          IN run' = [pc |-> "done", text |-> text, vars |-> vs, name |-> name,
                     result |-> executeSimple([Type |-> CommandSimple, Name |-> text,
                                               Args |-> <<>>, Redirects |-> <<>>], w)]
    /\ UNCHANGED <<jobVars, storeVars, shellVars, pipeVars>>

NextSubst == Substitute

(***************************************************************************)
(* The start of the shell: Run, parseArguments one iteration at a time,    *)
(* and the choice of what Run goes on to do.  run holds                    *)
(*   pc:   args (in the loop of parseArguments), error (Run has returned   *)
(*         an error), run (parseArguments has returned), and then          *)
(*         command, script, stdin or interactive                           *)
(*   args, i: os.Args and the loop index                                   *)
(*   turn: history, the parity of the iterations of the loop               *)
(* and the fields of the shell that parseArguments writes.                 *)
(***************************************************************************)
MaxArgs == 3

\* the arguments after the program name: options, an unknown option, and
\* the path f
ArgWords == {<<"-", "c">>, <<"-", "i">>, <<"-", "s">>, <<"-", "x">>, <<"f">>}
ArgLists == {<<<<"g">>>> \o rest : rest \in UNION {[1..n -> ArgWords] : n \in 0..MaxArgs}}

\* strings.HasPrefix
HasPrefix(s, prefix) == Len(s) >= Len(prefix) /\ SubSeq(s, 1, Len(prefix)) = prefix

\* Run is called with os.Args
StartShell ==
    /\ run.pc = "idle"
    /\ \E args \in ArgLists :
          run' = [pc |-> "args", args |-> args, i |-> 1, turn |-> 0,
                  Command |-> <<>>, ScriptFile |-> <<>>, ReadStdin |-> FALSE,
                  interactive |-> FALSE, loginShell |-> FALSE]
    /\ UNCHANGED <<jobVars, storeVars, shellVars, pipeVars>>

\* one iteration of the loop of parseArguments.  The break of the default
\* case leaves the switch, not the loop, and i stays as it is.
ArgsIter ==
    /\ run.pc = "args"
    /\ run.i < Len(run.args)
    /\ LET arg == run.args[run.i + 1]
           next == [run EXCEPT !.i = @ + 1, !.turn = 1 - @]
       IN run' = CASE arg = <<"-", "c">> ->
                        IF run.i + 1 >= Len(run.args)
                        THEN [run EXCEPT !.pc = "error"]
                        ELSE [run EXCEPT !.Command = run.args[run.i + 2],
                                         !.i = @ + 2, !.turn = 1 - @]
                   [] arg = <<"-", "i">> -> [next EXCEPT !.interactive = TRUE]
                   [] arg \in {<<"-", "l">>, <<"-", "-", "l", "o", "g", "i", "n">>} ->
                        [next EXCEPT !.loginShell = TRUE]
                   [] arg = <<"-", "s">> -> [next EXCEPT !.ReadStdin = TRUE]
                   [] arg \in {<<"-", "-", "n", "o", "r", "c">>,
                               <<"-", "-", "n", "o", "p", "r", "o", "f", "i", "l", "e">>,
                               <<"-", "-", "p", "o", "s", "i", "x">>,
                               <<"-", "-", "d", "e", "b", "u", "g">>} -> next
                   [] OTHER ->
                        IF HasPrefix(arg, <<"-">>)
                        THEN [run EXCEPT !.pc = "error"]
                        ELSE [run EXCEPT !.ScriptFile = arg, !.turn = 1 - @]
    /\ UNCHANGED <<jobVars, storeVars, shellVars, pipeVars>>

\* the loop has ended: lines 228-232
ArgsReturn ==
    /\ run.pc = "args"
    /\ run.i >= Len(run.args)
    /\ run' = [run EXCEPT !.pc = "run",
                          !.interactive =
                              IF run.Command = <<>> /\ run.ScriptFile = <<>>
                                 /\ ~run.ReadStdin
                              THEN TRUE ELSE @]
    /\ UNCHANGED <<jobVars, storeVars, shellVars, pipeVars>>

\* what Run goes on to do after initialize
RunDispatch ==
    /\ run.pc = "run"
    /\ run' = [run EXCEPT !.pc = IF run.Command # <<>> THEN "command"
                                 ELSE IF run.ScriptFile # <<>> THEN "script"
                                 ELSE IF run.ReadStdin THEN "stdin"
                                 ELSE IF run.interactive THEN "interactive"
                                 ELSE "stdin"]
    /\ UNCHANGED <<jobVars, storeVars, shellVars, pipeVars>>

NextArgs == StartShell \/ ArgsIter \/ ArgsReturn \/ RunDispatch

(***************************************************************************)
(* The signal channel of the shell.  New makes sigChan with room for one   *)
(* signal and starts the task that ranges over it; the main task runs the  *)
(* shell and ends it by Exit or by returning from Run, whose deferred      *)
(* cleanup runs then.  run holds                                           *)
(*   main:     run, cleanup (about to run cleanup, from Exit or from the   *)
(*             defer of Run), leave (about to call os.Exit or to return    *)
(*             from main)                                                  *)
(*   listener: range (at the receive of the range loop), cleanup (in Exit, *)
(*             about to run cleanup), leave (about to call os.Exit),       *)
(*             ended (the range loop has seen the channel closed)          *)
(*   chan, buf: whether sigChan is open, and the signals it holds          *)
(*   closes:   history, the number of calls of close(s.sigChan)            *)
(*   late:     history, a signal was sent to sigChan after it was closed   *)
(*   alive:    the process has neither exited nor panicked                 *)
(***************************************************************************)
SIGINT == "SIGINT"
SIGTERM == "SIGTERM"
SIGTSTP == "SIGTSTP"
ShellSignals == {SIGINT, SIGTERM, SIGTSTP}

\* the capacity of sigChan
SigChanSize == 1

\* shell.New, and Run called by main
StartSignals ==
    /\ run.pc = "idle"
    /\ \E interactive \in BOOLEAN :
          run' = [pc |-> "up", interactive |-> interactive, main |-> "run",
                  listener |-> "range", chan |-> "open", buf |-> <<>>,
                  closes |-> 0, late |-> FALSE, alive |-> TRUE]
    /\ UNCHANGED <<jobVars, storeVars, shellVars, pipeVars>>

\* the process is up
Up == run.pc = "up" /\ run.alive

\* close(s.sigChan), the last statement of cleanup, by the task whose
\* position is the field who: closing a closed channel panics
closeSigChan(who) ==
    IF run.chan = "closed"
    THEN [run EXCEPT !.closes = @ + 1, !.alive = FALSE]
    ELSE [run EXCEPT !.closes = @ + 1, !.chan = "closed", ![who] = "leave"]

\* the signal package hands a signal to sigChan without blocking: a full
\* channel drops it, a closed one panics
Deliver(sig) ==
    /\ Up
    /\ run' = IF run.chan = "closed"
              THEN [run EXCEPT !.late = TRUE, !.alive = FALSE]
              ELSE IF Len(run.buf) < SigChanSize
              THEN [run EXCEPT !.buf = Append(@, sig)]
              ELSE run
    /\ UNCHANGED <<jobVars, storeVars, shellVars, pipeVars>>

\* the range loop receives a signal and the switch acts on it
ListenerRecv ==
    /\ Up
    /\ run.listener = "range"
    /\ run.buf # <<>>
    /\ run' = [run EXCEPT !.buf = Tail(@),
                          !.listener =
                              IF \/ Head(run.buf) = SIGTERM
                                 \/ Head(run.buf) = SIGINT /\ ~run.interactive
                              THEN "cleanup" ELSE "range"]
    /\ UNCHANGED <<jobVars, storeVars, shellVars, pipeVars>>

\* the range loop ends on the closed and empty channel
ListenerEnd ==
    /\ Up
    /\ run.listener = "range"
    /\ run.buf = <<>>
    /\ run.chan = "closed"
    /\ run' = [run EXCEPT !.listener = "ended"]
    /\ UNCHANGED <<jobVars, storeVars, shellVars, pipeVars>>

\* s.cleanup() in the Exit the listener called
ListenerCleanup ==
    /\ Up
    /\ run.listener = "cleanup"
    /\ run' = closeSigChan("listener")
    /\ UNCHANGED <<jobVars, storeVars, shellVars, pipeVars>>

\* os.Exit(code) in the Exit the listener called
ListenerLeave ==
    /\ Up
    /\ run.listener = "leave"
    /\ run' = [run EXCEPT !.alive = FALSE]
    /\ UNCHANGED <<jobVars, storeVars, shellVars, pipeVars>>

\* the main task calls Exit (the exit builtin, the end of a script or of
\* -c), or Run returns and its deferred cleanup is about to run
MainEnds ==
    /\ Up
    /\ run.main = "run"
    /\ run' = [run EXCEPT !.main = "cleanup"]
    /\ UNCHANGED <<jobVars, storeVars, shellVars, pipeVars>>

\* s.cleanup() in Exit or in the defer of Run
MainCleanup ==
    /\ Up
    /\ run.main = "cleanup"
    /\ run' = closeSigChan("main")
    /\ UNCHANGED <<jobVars, storeVars, shellVars, pipeVars>>

\* os.Exit(code) in Exit, or main returns after Run
MainLeave ==
    /\ Up
    /\ run.main = "leave"
    /\ run' = [run EXCEPT !.alive = FALSE]
    /\ UNCHANGED <<jobVars, storeVars, shellVars, pipeVars>>

NextSignals ==
    \/ StartSignals
    \/ \E sig \in ShellSignals : Deliver(sig)
    \/ ListenerRecv
    \/ ListenerEnd
    \/ ListenerCleanup
    \/ ListenerLeave
    \/ MainEnds
    \/ MainCleanup
    \/ MainLeave

\* the process was started with an empty environment
NoEnviron == <<>>

Init == InitJobs /\ InitStore(NoEnviron) /\ InitShell /\ InitExec /\ InitPipe

InitVars == InitJobs /\ InitShell /\ InitExec /\ InitPipe /\ \E e \in Environs : InitStore(e)

\* the Job Manager with its calling thread, its monitors and the processes
SpecJobs == Init /\ [][NextCore \/ NextCalls \/ NextPrint]_vars

\* the Job Manager with the calls that run under the exclusive lock, the
\* monitors and the processes
SpecCore == Init /\ [][NextCore]_vars

\* the Job Manager with the fg builtin called without arguments
SpecFg == Init /\ [][NextCore \/ NextFg]_vars

\* the Job Manager with time passing between the calls
SpecTime == Init /\ [][NextCore \/ Tick]_vars

\* the Variable Store with any callers
SpecVars == InitVars /\ [][NextVars]_vars

\* the shell taking lines: once a line is in, the main goroutine keeps
\* running the parser and the executor
ShellRuns == ParseIter \/ ParseReturn \/ ExecuteNext \/ ExecuteReturn

SpecShell == Init /\ [][NextShell]_vars /\ WF_vars(ShellRuns)

\* the Executor evaluating one command
SpecExec == Init /\ [][NextExec]_vars

\* the Executor resolving one command name
SpecPath == Init /\ [][NextPath]_vars

\* the Executor evaluating one pipeline: the goroutine that called
\* executePipeline is scheduled whenever it can run
SpecPipe ==
    Init /\ [][NextPipe]_vars /\ \A k \in Calls : WF_vars(PipeJoins(k))

\* the Executor evaluating one external command with redirects
SpecRedirect == Init /\ [][NextRedirect]_vars

\* the Executor evaluating one For command over the Variable Store
SpecFor == InitVars /\ [][NextFor]_vars

\* the Parser parsing one line
SpecParse == Init /\ [][NextParse]_vars

\* the Executor evaluating one redirected command on each dispatch path
SpecDispatch == Init /\ [][NextDispatch]_vars

\* the Lexer on one line
SpecLex == Init /\ [][NextLex]_vars

\* the shell's tasks around its signal channel
SpecSignals == Init /\ [][NextSignals]_vars

\* the Parser on one if whose then-branch holds quoted words
SpecBody == Init /\ [][NextBody]_vars

\* executeLine on one line that holds an if
SpecIf == Init /\ [][NextIf]_vars

\* the shell from Run to what it goes on to do, its goroutine being scheduled
SpecArgs == Init /\ [][NextArgs]_vars /\ WF_vars(ArgsIter \/ ArgsReturn \/ RunDispatch)

\* the Executor substituting the name of one simple command
SpecSubst == Init /\ [][NextSubst]_vars

(***************************************************************************)
(* Claims about the Job Manager.                                           *)
(***************************************************************************)
LegalTransitions ==
    { <<JobRunning, JobStopped>>, <<JobRunning, JobDone>>, <<JobRunning, JobKilled>>,
      <<JobStopped, JobRunning>>, <<JobStopped, JobKilled>> }

\* C1: every change of a job's state is one of Running->Stopped,
\* Running->Done, Running->Killed, Stopped->Running, Stopped->Killed; a job
\* that is Done or Killed never changes state again.
C1_LegalTransitions ==
    [][\A j \in DOMAIN jobs :
          jobs'[j].State # jobs[j].State
          => <<jobs[j].State, jobs'[j].State>> \in LegalTransitions]_vars

\* C2: job ids are strictly increasing in Add order, so no two jobs ever
\* have the same id and the id of a job Clean removed is never handed out
\* again; the table holds only ids that were handed out.
C2_IdsIncreasing ==
    /\ \A i, k \in 1..Len(issued) : i < k => issued[i].id < issued[k].id
    /\ \A i \in 1..Len(issued) : issued[i].id < nextID
    /\ \A id \in table : \E i \in 1..Len(issued) : issued[i].id = id

\* an Add that ran after Clean had removed an earlier job
C2_Witness ==
    \E i \in 1..Len(issued) : issued[i].live < i - 1

\* C3: after Kill(id) succeeds the job is Killed when Kill returns, and the
\* monitor's later record of the exit changes neither the state nor the
\* finish time Kill recorded.
C3_KillIsFinal ==
    [][\A j \in DOMAIN jobs :
          /\ (Kill(j) /\ call'.res = "nil") => jobs'[j].State = JobKilled
          /\ (jobs[j].State = JobKilled /\ mon[j].pc = "record" /\ mon'[j].pc = "done")
             => /\ jobs'[j].State = JobKilled
                /\ jobs'[j].Finished = jobs[j].Finished]_vars

\* C4: when a job's process exits on its own the monitor records Done, for
\* exit status zero and non-zero alike, and it records Killed only when a
\* signal terminated the process.
C4_DoneOnOwnExit ==
    \A j \in DOMAIN jobs :
        mon[j].pc = "done"
        => /\ proc[j].how \in {"exit0", "exit1"} => jobs[j].State = JobDone
           /\ jobs[j].State = JobKilled => proc[j].how = "signal"

\* C5: Foreground(id) on an existing Running or Stopped job returns only
\* after the job's process has exited, and its result reflects that
\* process's exit status (nil for status 0, an ExitError otherwise).
C5_ForegroundWaits ==
    (/\ call.op = "Foreground"
     /\ call.pc = "ret"
     /\ call.res # "notfound"
     /\ call.seen \in {JobRunning, JobStopped})
    => /\ Exited(call.id)
       /\ call.res = "nil" <=> proc[call.id].how = "exit0"
       /\ call.res = "exit" <=> proc[call.id].how \in {"exit1", "signal"}

\* C6: Stop(id) succeeds only on a Running job and Continue(id) only on a
\* Stopped job, flipping the state; on a job in any other state, or when the
\* signal cannot be delivered, each returns an error and leaves the job
\* table as it was.
C6_StopContinue ==
    [][\A id \in IdSet :
          /\ Stop(id)
             => /\ call'.res = "nil"
                   => /\ id \in table
                      /\ jobs[id].State = JobRunning
                      /\ jobs'[id].State = JobStopped
                /\ (id \in table /\ (jobs[id].State # JobRunning \/ SignalErr(id)))
                   => call'.res = "err"
                /\ call'.res = "err" => jobs' = jobs /\ proc' = proc
          /\ Continue(id)
             => /\ call'.res = "nil"
                   => /\ id \in table
                      /\ jobs[id].State = JobStopped
                      /\ jobs'[id].State = JobRunning
                /\ (id \in table /\ (jobs[id].State # JobStopped \/ SignalErr(id)))
                   => call'.res = "err"
                /\ call'.res = "err" => jobs' = jobs /\ proc' = proc]_vars

\* Stop has failed on a Running job because its process, already waited
\* for by the monitor, takes no signal
C6_Witness ==
    /\ call.op = "Stop"
    /\ call.res = "err"
    /\ call.id \in table
    /\ jobs[call.id].State = JobRunning
    /\ SignalErr(call.id)

\* what an operation on job id leaves alone: the table's keys, and the
\* record and the process of every other job
Frame(id) ==
    /\ table' = table
    /\ \A j \in DOMAIN jobs : j # id => jobs'[j] = jobs[j] /\ proc'[j] = proc[j]

\* C7: Kill, Stop, Continue, Foreground and Background called with an id
\* that is not in the table return an error and leave the table unchanged;
\* each step of these operations on job id leaves the record of every other
\* job unchanged.
C7_Frame ==
    [][\A id \in IdSet :
          /\ (Kill(id) \/ Stop(id) \/ Continue(id))
             => /\ Frame(id)
                /\ id \notin table => call'.res = "err" /\ jobs' = jobs /\ proc' = proc
          /\ (FgGet(id) \/ BgGet(id))
             => /\ jobs' = jobs /\ proc' = proc /\ table' = table
                /\ id \notin table => call'.pc = "ret" /\ call'.res = "notfound"
          /\ (call.id = id /\ (FgCheck \/ FgContinue \/ FgWait \/ BgCheck \/ BgContinue))
             => Frame(id)]_vars

\* Continue has resumed one job while another job of the table is Stopped
C7_Witness ==
    /\ call.op = "Continue"
    /\ call.res = "nil"
    /\ \E j \in table : j # call.id /\ jobs[j].State = JobStopped

\* C8: no operation is about to read a job's state, finish time or exit
\* code outside the lock while the monitor holds the lock to write them.
C8_NoUnlockedRead ==
    \A j \in DOMAIN mon :
        mu = j
        => /\ ~(call.pc = "check" /\ call.id = j)
           /\ ~(call.op = "Print" /\ call.pc = "read" /\ j \in call.todo)

(***************************************************************************)
(* Claims about the Variable Store.                                        *)
(***************************************************************************)
\* C10: in every reachable state of the Variable Store, each variable whose
\* exported flag is set has an entry in the process environment, and that
\* entry equals the variable's current value.
C10_ExportedInEnv ==
    \A name \in DOMAIN store :
        store[name].Exported
        => /\ name \in DOMAIN env
           /\ env[name] = store[name].Value

(***************************************************************************)
(* Claims about a command line that ends in `&`.                           *)
(***************************************************************************)
\* the line in hand is a command followed by `&`: words, then the
\* background token, then the end marker
EndsInBackground ==
    /\ Len(tokens) >= 3
    /\ tokens[Len(tokens) - 1].Type = TokenBackground
    /\ \A i \in 1..(Len(tokens) - 2) : tokens[i].Type = TokenWord

\* C9: executing a command line that ends in `&` returns control to the
\* read loop, with a job for the command registered in the Job Manager.
C9_BackgroundReturns ==
    [](loop = "parse" /\ EndsInBackground => <>(loop = "read" /\ table # {}))

\* C11: once a variable is read-only it stays in the store and read-only,
\* and every Set, SetArray, SetArrayElement and Unset on its name returns
\* the read-only error and leaves the store and the environment unchanged.
C11_ReadOnlyRejects ==
    [][\A name \in VarNames :
          (name \in DOMAIN store /\ store[name].ReadOnly)
          => /\ name \in DOMAIN store' /\ store'[name].ReadOnly
             /\ (\/ \E value \in VarValues : Set(name, value)
                 \/ \E values \in ArrayValues : SetArray(name, values)
                 \/ \E index \in 0..MaxIndex, value \in VarValues :
                       SetArrayElement(name, index, value)
                 \/ Unset(name))
                => /\ storeErr' = "readonly"
                   /\ store' = store
                   /\ env' = env]_vars

\* an operation has been rejected on a read-only variable that is exported
\* and has its entry in the environment
C11_Witness ==
    /\ storeErr = "readonly"
    /\ \E name \in DOMAIN store :
          /\ store[name].ReadOnly
          /\ store[name].Exported
          /\ name \in DOMAIN env
          /\ env[name] = "v"

(***************************************************************************)
(* Claims about the Executor.                                              *)
(***************************************************************************)
\* what the evaluation did for the simple commands it evaluated
CommandKinds == {"builtin", "spawn", "notfound", "lost"}

CommandEvents ==
    IF run.pc = "done"
    THEN {run.result.events[i] : i \in {k \in DOMAIN run.result.events :
                                          run.result.events[k].kind \in CommandKinds}}
    ELSE {}

\* C12: whenever Execute evaluates a simple command whose name is a
\* registered builtin, standalone or as the left or the right stage of a
\* pipeline, the builtin function is invoked and no external process is
\* spawned for that command.
C12_BuiltinPrecedence ==
    \A event \in CommandEvents :
        event.name \in Builtins => event.kind = "builtin"

\* the directories of a PATH value, in order
Directories(path) == Split(path, ":")

\* the name is in directory number i of path
ContainsName(w, name, i) == PathJoin(Directories(w.PATH)[i], name) \in w.files

\* the resolution of a name without path separator returned the match in
\* the first directory of PATH that contains the name, or failed with 127
\* and nothing spawned when no directory does
FirstMatch ==
    LET w == run.world
        name == run.input
        dirs == Directories(w.PATH)
        hits == {i \in 1..Len(dirs) : ContainsName(w, name, i)}
    IN IF hits = {}
       THEN /\ run.result.code = 127
            /\ \A event \in CommandEvents : event.kind # "spawn"
       ELSE LET first == CHOOSE i \in hits : \A j \in hits : i <= j
            IN run.result.events
                  = <<Event("spawn", name, "alone", PathJoin(dirs[first], name))>>

IsElement(event) == event.kind = "element"
IsCommandEvent(event) == event.kind \in CommandKinds

\* the events of the evaluations of the first n elements of a list
RECURSIVE EventsOf(_, _, _)
EventsOf(list, n, w) ==
    IF n = 0 THEN <<>>
    ELSE EventsOf(list, n - 1, w) \o Execute(list.Commands[n], w).events

\* element number j of the list, whose status was code, ends the evaluation
Stops(list, j, code) ==
    /\ j <= Len(list.Operators)
    /\ \/ list.Operators[j] = "&&" /\ code # 0
       \/ list.Operators[j] = "||" /\ code = 0

\* C14: for every List, elements are evaluated left to right; evaluation
\* stops after the first element that returns non-zero and is followed by
\* `&&`, or returns zero and is followed by `||`; no later element is
\* evaluated, and the List's status is the status of the last element
\* evaluated.
C14_ListEvaluation ==
    (run.pc = "done" /\ ~run.err /\ run.cmd.Type = CommandList)
    => LET list == run.cmd
           w == run.world
           elements == SelectSeq(run.result.events, IsElement)
           k == Len(elements)
           n == IF run.result.panic THEN k + 1 ELSE k
       IN /\ \A j \in 1..k :
                /\ elements[j].index = j - 1
                /\ elements[j].code = Execute(list.Commands[j], w).code
          /\ \A j \in 1..(k - 1) : ~Stops(list, j, elements[j].code)
          /\ n <= Len(list.Commands)
          /\ SelectSeq(run.result.events, IsCommandEvent) = EventsOf(list, n, w)
          /\ ~run.result.panic
             => /\ k >= 1
                /\ k = Len(list.Commands) \/ Stops(list, k, elements[k].code)
                /\ run.result.code = elements[k].code

\* a list of three elements of which the second, followed by `&&`, failed:
\* the third was not evaluated and the status is the second's
C14_Witness ==
    /\ run.pc = "done" /\ ~run.err
    /\ run.cmd.Type = CommandList
    /\ Len(run.cmd.Commands) = 3
    /\ run.cmd.Commands[3] # Nil
    /\ run.cmd.Operators = <<"||", "&&">>
    /\ Len(SelectSeq(run.result.events, IsElement)) = 2
    /\ run.result.code = 1

\* C15: for every For command with value list vs, the body is evaluated
\* exactly len(vs) times; after the loop returns the loop variable holds
\* the last element of vs, and when vs is empty the loop variable is left
\* untouched.
C15_ForLoop ==
    (run.pc = "done" /\ run.cmd.Type = CommandFor)
    => LET vs == run.cmd.Values
           name == run.cmd.Variable
       IN /\ run.bodies = Len(vs)
          /\ vs # <<>> => /\ name \in DOMAIN store
                          /\ store[name].Value = vs[Len(vs)]
          /\ vs = <<>> => <<store, env>> = run.before

\* the exit status of a simple command run as the right stage in world w
RightStatus(right, w) ==
    IF right.Name \in Builtins \/ ~findCommand(right.Name, w).err
    THEN w.status[right.Name]
    ELSE 127

\* the worlds that differ from w at most in what is not the right stage's
SameRight(right, w) ==
    {v \in ExecWorlds : /\ v.status[right.Name] = w.status[right.Name]
                        /\ findCommand(right.Name, v) = findCommand(right.Name, w)}

\* C16: executePipeline returns the exit status of the right-hand stage for
\* every pair of stages; the outcome of the left stage (non-zero exit, or
\* command not found) never changes the returned status.
C16_RightStatus ==
    (/\ run.pc = "done" /\ ~run.err
     /\ run.cmd.Type = CommandPipeline
     /\ ~run.result.panic)
    => /\ run.result.code = RightStatus(run.cmd.Right, run.world)
       /\ \A v \in SameRight(run.cmd.Right, run.world) :
             Execute(run.cmd, v).code = run.result.code

\* a pipeline whose left stage ran and failed and whose right stage
\* returned 0, and one whose left stage was not found
C16_Witness ==
    /\ run.pc = "done" /\ ~run.err
    /\ run.cmd.Type = CommandPipeline
    /\ run.cmd.Left.Type = CommandSimple
    /\ run.cmd.Left.Name = <<"a">>
    /\ run.cmd.Right # Nil
    /\ run.cmd.Right.Name = <<"c">>
    /\ run.world.status[<<"a">>] = 1
    /\ <<"/bin", "/", "a">> \in run.world.files
    /\ run.result.code = 0
    /\ \E v \in SameRight(run.cmd.Right, run.world) :
          Execute(run.cmd, v).events[1].kind = "lost"

(***************************************************************************)
(* Claims about the pipeline.                                              *)
(***************************************************************************)
\* the stage task has run its stage and signalled done
Finished(pc) == pc \in {"sent", "end"}

BothFinished(k) ==
    k \in DOMAIN inv /\ Finished(inv[k].left) /\ Finished(inv[k].right)

Returned(k) == k \in DOMAIN inv /\ inv[k].pc = "returned"

\* C17: executePipeline returns only after both the left-stage task and the
\* right-stage task have finished, for every pipeline including left-nested
\* multi-stage pipelines; it never returns while a stage task is still
\* running and it never waits forever once both stages have finished.
C17_JoinsBoth ==
    /\ [](\A k \in Calls : Returned(k) => BothFinished(k))
    /\ \A k \in Calls : BothFinished(k) ~> Returned(k)

\* the outer call of a three-stage pipeline has returned, after the inner
C17_Witness ==
    /\ Len(stages) = 3
    /\ Returned(1) /\ Returned(2)
    /\ BothFinished(2)

\* the outermost call of executePipeline has returned
OutermostReturned == stages # <<>> /\ Returned(Len(stages) - 1)

\* C18: a pipeline whose right-hand stage is a builtin binds the pipe's read
\* end to that one invocation through an explicit handle: the process-wide
\* standard-input reference is never reassigned, and after the outermost
\* pipeline evaluation returns it equals its value before the evaluation,
\* for every interleaving of the concurrently running stages of nested
\* pipelines.
C18_StdinUntouched ==
    /\ [][osStdin' = osStdin]_vars
    /\ [](OutermostReturned => osStdin = Tty)

\* C19: in a multi-stage pipeline `a | b | c`, parsed as the left-nested
\* Pipeline(Pipeline(a, b), c), the output of each stage is the input of
\* the next: what b writes to its standard output is exactly what c reads
\* from its standard input.
C19_StagesConnected ==
    (/\ OutermostReturned
     /\ Len(stages) = 3
     /\ \A i \in 1..3 : stages[i] = "external")
    => /\ procs[2].got = procs[1].wrote
       /\ procs[3].got = procs[2].wrote

(***************************************************************************)
(* Claims about redirects.                                                 *)
(***************************************************************************)
\* the files after the evaluation
FilesAfter == Effects(run.result.events, run.world.fs)

\* C20: for an external SimpleCommand whose redirects are `> f` followed by
\* `>> f`, the file f is never truncated: everything f contained before the
\* command is still there afterwards and the command's output is only
\* appended.
C20_AppendWins ==
    (/\ run.pc = "done" /\ ~run.err
     /\ run.cmd.Type = CommandSimple
     /\ run.cmd.Redirects = <<[Type |-> RedirectOutput, Target |-> <<"f">>],
                              [Type |-> RedirectAppend, Target |-> <<"f">>]>>
     /\ <<"f">> \in DOMAIN run.world.fs)
    => FilesAfter[<<"f">>] = run.world.fs[<<"f">>] \o Output

\* the files a redirect opens, by the redirect's type
OpenKind(type) ==
    CASE type = RedirectInput -> "open"
      [] type = RedirectOutput -> "create"
      [] type = RedirectAppend -> "append"

IsOpen(event) == event.kind \in {"open", "create", "append"}

\* redirect i of the evaluated command cannot be opened: the target is
\* denied, or it is read and neither exists nor was created by a redirect
\* before it
OpenFails(i) ==
    LET rs == run.cmd.Redirects
    IN \/ rs[i].Target \in run.world.denied
       \/ /\ rs[i].Type = RedirectInput
          /\ rs[i].Target \notin DOMAIN run.world.fs
          /\ \A j \in 1..(i - 1) :
                ~(rs[j].Target = rs[i].Target /\ rs[j].Type # RedirectInput)

\* the last redirect of the evaluated command whose type is in types, 0
\* when there is none
LastRedirect(types) ==
    LET rs == run.cmd.Redirects
        S == {i \in 1..Len(rs) : rs[i].Type \in types}
    IN IF S = {} THEN 0 ELSE CHOOSE i \in S : \A j \in S : j <= i

\* C21: for a SimpleCommand that resolves to an external executable,
\* redirects are opened in declaration order and the last redirect for a
\* stream is the one bound to it; if opening any redirect target fails the
\* command returns status 1 and the process is never launched.
C21_RedirectOrder ==
    (/\ run.pc = "done" /\ ~run.err
     /\ run.cmd.Type = CommandSimple
     /\ ~findCommand(run.cmd.Name, run.world).err)
    => LET rs == run.cmd.Redirects
           events == run.result.events
           failing == {i \in 1..Len(rs) : OpenFails(i)}
           n == IF failing = {} THEN Len(rs)
                ELSE (CHOOSE i \in failing : \A j \in failing : i <= j) - 1
           in == LastRedirect({RedirectInput})
           out == LastRedirect({RedirectOutput, RedirectAppend})
           reads == SelectSeq(events, LAMBDA e : e.kind = "read")
           writes == SelectSeq(events, LAMBDA e : e.kind = "write")
           spawns == SelectSeq(events, LAMBDA e : e.kind = "spawn")
       IN /\ SelectSeq(events, IsOpen)
                = [i \in 1..n |-> Opened(OpenKind(rs[i].Type), rs[i].Target)]
          /\ failing # {} => run.result.code = 1 /\ spawns = <<>>
          /\ failing = {} =>
                /\ Len(spawns) = 1
                /\ reads = IF in = 0 THEN <<>> ELSE <<ReadFrom(rs[in].Target)>>
                /\ writes = IF out = 0 THEN <<>>
                            ELSE <<Wrote(rs[out].Target,
                                         rs[out].Type = RedirectAppend, Output)>>

\* `a > f > g` was evaluated, both files could be opened, and a wrote to g
C21_Witness ==
    /\ run.pc = "done" /\ ~run.err
    /\ run.cmd.Type = CommandSimple
    /\ run.cmd.Redirects = <<[Type |-> RedirectOutput, Target |-> <<"f">>],
                             [Type |-> RedirectOutput, Target |-> <<"g">>]>>
    /\ run.world.denied = {}
    /\ \E i \in DOMAIN run.result.events :
          run.result.events[i] = Wrote(<<"g">>, FALSE, Output)

(***************************************************************************)
(* Claims about Parse.                                                     *)
(***************************************************************************)
\* C22: Parse terminates on every input line built from the grammar
\* surface: once the shell has called Parse on a line, Parse returns, with
\* the command sequence (the shell goes on to execute it) or with a
\* ParseError (the shell goes back to read).
C22_ParseTerminates == (loop = "parse") ~> (loop \in {"execute", "read"})

\* the command tree holds a Pipeline node without a Left or a Right stage
RECURSIVE MissingStage(_)
MissingStage(cmd) ==
    IF cmd = Nil THEN FALSE
    ELSE CASE cmd.Type = CommandPipeline ->
                 \/ cmd.Left = Nil \/ cmd.Right = Nil
                 \/ MissingStage(cmd.Left) \/ MissingStage(cmd.Right)
           [] cmd.Type = CommandList ->
                 \E i \in DOMAIN cmd.Commands : MissingStage(cmd.Commands[i])
           [] OTHER -> FALSE

\* C23: a line in which a pipe operator lacks a command on its left or on
\* its right yields a ParseError: the parser never returns a Pipeline node
\* whose Left or Right stage is missing, and the executor never evaluates
\* such a node.
C23_PipeNeedsBothSides ==
    (run.pc = "done" /\ ~run.err) => ~MissingStage(run.cmd)

\* a redirect token of the line is not followed by a word token
RedirectWithoutWord(toks) ==
    \E i \in 1..Len(toks) :
        /\ toks[i].Type \in {TokenRedirectOut, TokenRedirectIn, TokenRedirectAppend}
        /\ (i = Len(toks) \/ toks[i + 1].Type # TokenWord)

\* C24: whenever a redirect operator in the input line is not followed by
\* a word, a Parse that returns returns a ParseError, also when the
\* redirect stands inside the then- or else-branch of an if or the body of
\* a while or for.
C24_RedirectNeedsWord ==
    (/\ run.pc = "done"
     /\ ~run.parse.hang
     /\ RedirectWithoutWord(Tokenize(run.input)))
    => run.parse.err

\* C25: when Parse fails on a line, none of that line's commands is
\* executed (the shell is never in the range loop of executeLine with a
\* line on which Parse fails, and leaves Parse for the read loop with no
\* command in hand), the shell's status is set to a non-zero value, and the
\* read loop goes on to accept the next line.
C25_ParseErrorAborts ==
    /\ [](loop = "execute" => ~Parse(line).err)
    /\ [][(loop = "parse" /\ loop' = "read")
              => (Parse(line).err /\ commands' = <<>> /\ exitCode' # 0)]_vars
    /\ (loop = "parse" /\ Parse(line).err) ~> (loop = "read" /\ exitCode # 0)

\* Parse has failed on `a;>`, a line with a command before the error, and
\* the shell is back in the read loop
C25_Witness ==
    /\ loop = "read"
    /\ line = <<"a", ";", ">">>
    /\ exitCode = 2
    /\ commands = <<>>

\* C26: parsing is deterministic and leaves no state behind: whatever
\* lines the same Parser has parsed before, the command sequence a call of
\* Parse returns is the one that the line alone determines.
C26_ParseDeterministic ==
    [][(loop = "parse" /\ loop' = "execute")
          => (~Parse(line).err /\ ~Parse(line).hang
              /\ commands' = Parse(line).cmds)]_vars

\* Parse has returned the command of the line `a` on a Parser that an
\* earlier, failed call had left in the middle of its tokens
C26_Witness ==
    /\ loop = "execute"
    /\ line = <<"a">>
    /\ Len(commands) = 1
    /\ exitCode = 2

(***************************************************************************)
(* Claims about the status Execute returns.                                *)
(***************************************************************************)
\* C27: Execute returns an integer in the range 0..255 for every Command,
\* whatever the outcome of the commands it runs: external processes
\* terminated by a signal, builtins, and commands not found.
C27_StatusInRange ==
    (run.pc = "done" /\ ~run.err /\ ~run.result.panic /\ ~run.result.hang)
    => run.result.code \in 0..255

(***************************************************************************)
(* Claims about variable substitution.                                     *)
(***************************************************************************)
\* the names a reference may hold
RefNames == {<<"X">>, <<"Y">>, <<"X", "Y">>}

\* the value of name in vs, and whether it is set
IsSet(vs, name) == \E i \in DOMAIN vs : vs[i].Name = name
ValueOf(vs, name) == vs[CHOOSE i \in DOMAIN vs : vs[i].Name = name].Value

\* C28: in a command name, a `$NAME` or `${NAME}` occurrence whose
\* variable is set is replaced by the variable's current value, and an
\* occurrence whose variable is unset is replaced by the empty string;
\* stated for the names that consist of one such occurrence.
C28_Substitution ==
    run.pc = "done"
    => \A name \in RefNames :
          run.text \in {<<"$">> \o name, <<"$", "{">> \o name \o <<"}">>}
          => run.name = IF IsSet(run.vars, name) THEN ValueOf(run.vars, name)
                        ELSE <<>>

(***************************************************************************)
(* Claims about the start of the shell.                                    *)
(***************************************************************************)
\* the first argument that is no option is a path, and the arguments
\* before it are options that take no argument
ScriptFirst(args) ==
    \E k \in 2..Len(args) :
        /\ ~HasPrefix(args[k], <<"-">>)
        /\ \A j \in 2..(k - 1) : args[j] \in {<<"-", "i">>, <<"-", "s">>}

\* C29: started with a script file path as its first non-option argument,
\* the shell finishes parsing its arguments and goes on to execute the
\* script.
C29_ScriptRuns ==
    (run.pc = "args" /\ ScriptFirst(run.args)) ~> (run.pc = "script")

(***************************************************************************)
(* Claims about elif.                                                      *)
(***************************************************************************)
\* the status the command called name returns in world w
Outcome(name, w) == Execute(FirstOf(Parse(name).cmds), w).code

\* the evaluation r ran the command called name, or looked for it
Ran(r, name) ==
    \E i \in 1..Len(r.events) :
        r.events[i].kind \in CommandKinds /\ r.events[i].name = name

\* if p ; then a ; elif q ; then r ; fi
ElifLine == Spaced(IfPieces(1, FALSE))

\* C30: for `if C1; then A; elif C2; then B; fi`, when C1 returns non-zero
\* and C2 returns zero the body B is executed and A is not; when C1
\* returns zero only A is executed and C2 is not evaluated.
C30_ElifChain ==
    (run.pc = "done" /\ run.input = ElifLine) =>
        /\ (Outcome(<<"p">>, run.world) # 0 /\ Outcome(<<"q">>, run.world) = 0) =>
               (Ran(run.result, <<"r">>) /\ ~Ran(run.result, <<"a">>))
        /\ Outcome(<<"p">>, run.world) = 0 =>
               /\ Ran(run.result, <<"a">>)
               /\ ~Ran(run.result, <<"q">>)
               /\ ~Ran(run.result, <<"r">>)

(***************************************************************************)
(* Claims about the commands of a branch or a loop body.                   *)
(***************************************************************************)
\* the evaluation r ran the command called first and later the one called
\* second
InOrder(r, first, second) ==
    \E i, j \in 1..Len(r.events) :
        /\ i < j
        /\ r.events[i].kind \in CommandKinds /\ r.events[i].name = first
        /\ r.events[j].kind \in CommandKinds /\ r.events[j].name = second

\* the line of run holds a ; r in a branch or body that was run
BodyRan ==
    /\ run.pc = "done"
    /\ \/ run.input = ThenBody /\ Outcome(<<"p">>, run.world) = 0
       \/ run.input = ElseBody /\ Outcome(<<"p">>, run.world) # 0
       \/ run.input = WhileBody /\ Outcome(<<"p">>, run.world) = 0
       \/ run.input = ForBody

\* C31: when the then-branch, the else-branch or a loop body holds several
\* commands separated by `;`, running that branch or body executes all of
\* them in order.
C31_WholeBody == BodyRan => InOrder(run.result, <<"a">>, <<"r">>)

(***************************************************************************)
(* Claims about redirects on every dispatch path.                          *)
(***************************************************************************)
\* event i of the evaluation r is the builtin or the process called name
IsRun(r, i, name) ==
    r.events[i].kind \in {"builtin", "spawn"} /\ r.events[i].name = name

\* C32: redirects attached to a simple command take effect on every
\* dispatch path: for a builtin, and for the left or right stage of a
\* pipeline, f is opened for writing before the command runs, and the
\* command does not run when f cannot be opened.
C32_RedirectEveryPath ==
    run.pc = "done" =>
        \A i \in 1..Len(run.result.events) :
            IsRun(run.result, i, run.who) =>
                /\ <<"f">> \notin run.world.denied
                /\ \E j \in 1..(i - 1) :
                       /\ run.result.events[j].kind \in {"create", "append"}
                       /\ run.result.events[j].target = <<"f">>

(***************************************************************************)
(* Claims about Foreground, Background and Clean.                          *)
(***************************************************************************)
\* a call of Foreground or Background has returned, and the state it read
\* of its job was Done or Killed
TerminalCallReturned ==
    /\ call.op \in {"Foreground", "Background"}
    /\ call.pc = "ret"
    /\ call.res # "notfound"
    /\ call.seen \in {JobDone, JobKilled}

\* C33: Foreground(id) and Background(id) called on a job whose state is
\* Done or Killed return an error to the caller.
C33_TerminalJobError == TerminalCallReturned => call.res # "nil"

\* C34: Clean removes exactly the jobs whose state is Done or Killed and
\* keeps every Running and Stopped job unchanged; no other Job Manager
\* operation ever removes a job from the table.
C34_CleanOnly ==
    [][LET removed == table \ table'
       IN removed # {} =>
              /\ removed = {id \in table : jobs[id].State \in {JobDone, JobKilled}}
              /\ \A id \in table \ removed : id \in table' /\ jobs'[id] = jobs[id]
              /\ table' \subseteq table
              /\ UNCHANGED <<nextID, proc, mon, call>>]_vars

\* Clean has removed a job and kept a running one
C34_Witness ==
    /\ \E id \in DOMAIN jobs \ table : jobs[id].State \in {JobDone, JobKilled}
    /\ \E id \in table : jobs[id].State = JobRunning

(***************************************************************************)
(* Claims about quoted regions.                                            *)
(***************************************************************************)
\* the positions (counted from 0) of the first quote of the line and of
\* the quote that closes its region; Len(input) where there is none
FirstQuote(input) ==
    IF \E p \in 0..(Len(input) - 1) : At(input, p) = "\""
    THEN CHOOSE p \in 0..(Len(input) - 1) :
             /\ At(input, p) = "\""
             /\ \A o \in 0..(p - 1) : At(input, o) # "\""
    ELSE Len(input)

ClosingQuote(input) ==
    LET open == FirstQuote(input)
    IN IF \E q \in (open + 1)..(Len(input) - 1) : At(input, q) = "\""
       THEN CHOOSE q \in (open + 1)..(Len(input) - 1) :
                /\ At(input, q) = "\""
                /\ \A o \in (open + 1)..(q - 1) : At(input, o) # "\""
       ELSE Len(input)

\* the line holds a closed quoted region that no comment sign precedes
HasRegion(input) ==
    /\ ClosingQuote(input) < Len(input)
    /\ \A o \in 0..(FirstQuote(input) - 1) : At(input, o) # "#"

RegionText(input) == Slice(input, FirstQuote(input) + 1, ClosingQuote(input))

\* sub is a run of consecutive elements of s
HoldsRun(s, sub) ==
    \E i \in 0..(Len(s) - Len(sub)) : Slice(s, i, i + Len(sub)) = sub

\* the number of operator tokens
Operators(toks) ==
    Cardinality({i \in 1..Len(toks) : toks[i].Type \notin {TokenWord, TokenEOF}})

\* C35: wherever a quote character opens a quoted region in the line, at
\* the start of a word or in the middle of one, the whitespace and the
\* metacharacters inside the region produce no operator token and no word
\* break; the region's text belongs to a single word token.
C35_QuotedRegion ==
    (run.pc = "done" /\ "tokens" \in DOMAIN run /\ HasRegion(run.input)) =>
        /\ \E i \in 1..Len(run.tokens) :
               /\ run.tokens[i].Type = TokenWord
               /\ HoldsRun(run.tokens[i].Value, RegionText(run.input))
        /\ Operators(run.tokens) =
               Operators(Tokenize(Slice(run.input, 0, FirstQuote(run.input))))
               + Operators(Tokenize(Slice(run.input, ClosingQuote(run.input) + 1,
                                          Len(run.input))))

(***************************************************************************)
(* Claims about the monitor beside other waiters.                          *)
(***************************************************************************)
\* C36: a job's monitor sets the state to Done or Killed only after the
\* job's process has really exited, under every interleaving of the
\* monitor with Foreground and WaitJob calls that wait on the same process
\* handle.
C36_MonitorAfterExit ==
    [][\A j \in DOMAIN mon :
           mon'[j].pc # mon[j].pc => proc[j].st \in {"zombie", "reaped"}]_vars

\* the monitor of a job has set its state after a call of Foreground or
\* WaitJob on the same job took the status of the process
C36_Witness ==
    /\ call.op \in {"Foreground", "WaitJob"}
    /\ call.pc = "ret"
    /\ call.res \in {"nil", "exit"}
    /\ call.id \in DOMAIN mon
    /\ mon[call.id].pc = "done"
    /\ mon[call.id].err = "other"
    /\ jobs[call.id].State = JobKilled

(***************************************************************************)
(* Claims about the signal channel.                                        *)
(***************************************************************************)
\* C37: the shell's signal channel is closed at most once and no signal is
\* delivered to it after it is closed, under every interleaving of Exit
\* called by the signal-listening task, Exit called by the main task, Run's
\* deferred cleanup, and the arrival of further signals.
C37_SigChanClosedOnce ==
    run.pc = "up" => (run.closes <= 1 /\ ~run.late)

(***************************************************************************)
(* Claims about the order of substitution.                                 *)
(***************************************************************************)
\* two orders of the same variables
SameStore(vs, ws) == {vs[i] : i \in DOMAIN vs} = {ws[i] : i \in DOMAIN ws}

\* C38: SubstituteVariables is deterministic: for a fixed text and fixed
\* store contents every call returns the same string, also when the name
\* of one variable is a prefix of the name of another and when a
\* variable's value itself contains `$`.
C38_SubstitutionDeterministic ==
    run.pc = "done" =>
        \A vs \in SubstVars :
            SameStore(vs, run.vars) => SubstituteVariables(run.text, vs) = run.name

(***************************************************************************)
(* Claims about the re-parsing of spans.                                   *)
(***************************************************************************)
\* C39: re-parsing the span of a then-branch preserves its tokens: lexing
\* the space-joined token values of the span gives back the same token
\* sequence, so a quoted word containing spaces or metacharacters stays one
\* argument, and a quoted word equal to a keyword does not end the span.
C39_SpanRoundTrip ==
    (run.pc = "done" /\ "span" \in DOMAIN run) =>
        /\ run.span \o <<Token(TokenEOF, <<>>)>> = Tokenize(run.body)
        /\ run.again = run.span \o <<Token(TokenEOF, <<>>)>>

(***************************************************************************)
(* Claims about the fg builtin.                                            *)
(***************************************************************************)
\* C40: the fg builtin called without arguments, when the job table is
\* non-empty but holds no job in state Running, reports `no current job`
\* and returns status 1; it never fails in any other way for any content
\* of the job table.
C40_FgNoCurrentJob == call.res # "panic"

====
